---- MODULE Spec2Model ----
(***************************************************************************)
(* ConfigMap propagator: the reconciliation engine of                      *)
(* custom-controllers/propagator.  One source ConfigMapPropagation record  *)
(* (cmp), one source ConfigMap (srcCM) and the target ConfigMaps of the    *)
(* object store (store).  Every API call of the client may fail; a failure *)
(* is an input of the action that makes the call.                          *)
(***************************************************************************)
EXTENDS Integers, Sequences, FiniteSets, TLC

VARIABLES
    store,   \* target location -> the ConfigMap stored there
    srcCM,   \* the source ConfigMap
    cmp,     \* the ConfigMapPropagation record as stored
    now,     \* the clock read by time.Now(), one tick per reconciliation
    nfail,   \* API calls that have returned an error so far
    last,    \* what the last reconciliation did and returned
    fin,     \* inputs of the function under check (pure-function specifications)
    fout     \* its result

vars == <<store, srcCM, cmp, now, nfail, last, fin, fout>>

-----------------------------------------------------------------------------
(* Bounds of the model *)

\* reconciliations in one behaviour
MaxPasses == 2
\* API calls that return an error in one behaviour
MaxFailures == 1
\* length of the desired / current lists handed to the diff
MaxLen == 2
\* generations of the source record (edits of its spec plus one)
MaxGenerations == 2
\* ticks of the clock the scheduler is asked at
MaxClock == 3

-----------------------------------------------------------------------------
(* Names *)

FinalizerName == "sync.propagators.io/finalizer"
ErrDeletingTargets == "failed to remove/orphan ConfigMaps of targets"

\* the source record's identity
CmpNamespace == "default"
CmpName == "cmp1"
CmpUID == "uid-1"
\* another ConfigMapPropagation record's identity
OtherOwner == "default.cmp2"
OtherUID == "uid-2"

SourceName == "cm1"

Namespaces == {"ns-a", "ns-b", "ns-c"}
defaultSystemNamespaces == {"kube-system", "kube-public", "kube-node-lease"}

Keys == {"k1", "k2"}
Values == {"v1", "v2"}
Absent == "-"

\* PropagatorTarget
Target(ns, name) == [Namespace |-> ns, ConfigmapName |-> name]
Locs == {Target(ns, SourceName) : ns \in Namespaces}

\* a function as the table of its values, each computed once (TLC computes
\* the value of [x \in S |-> e] anew wherever it is applied)
Tabulated(f) == f @@ <<>>

\* key := target.Namespace + "/" + target.ConfigmapName
KeyOf(t) == t.Namespace \o "/" \o t.ConfigmapName

\* fmt.Sprintf("%s.%s", cmp.Namespace, cmp.Name)
OwnerLabelValue(ns, name) == ns \o "." \o name
MyOwner == OwnerLabelValue(CmpNamespace, CmpName)

-----------------------------------------------------------------------------
(* ConfigMap payloads.  A stored payload is a mapping key -> value; a Go    *)
(* map read back from the store is nil when the mapping is empty (the      *)
(* data field is omitted when empty), and a map built with                 *)
(* map[string]string{} is non-nil even when empty.                         *)

Payload == [Keys -> Values \cup {Absent}]
EmptyPayload == [k \in Keys |-> Absent]
KeysOf(p) == {k \in Keys : p[k] # Absent}

\* the Data field of an object decoded from the store
Decoded(p) == [isNil |-> KeysOf(p) = {}, kv |-> p]
\* desiredData := map[string]string{}
MakeMap == [isNil |-> FALSE, kv |-> EmptyPayload]
\* for k, v := range src { dst[k] = v }
CopyInto(dst, src) ==
    [isNil |-> dst.isNil,
     kv |-> [k \in Keys |-> IF src.kv[k] # Absent THEN src.kv[k] ELSE dst.kv[k]]]

\* reflect.DeepEqual on two map[string]string values: both nil or both
\* non-nil, and the same entries
DeepEqual(a, b) == a.isNil = b.isNil /\ a.kv = b.kv

NoCM == [exists |-> FALSE, data |-> EmptyPayload, owner |-> "", uid |-> "",
         managed |-> FALSE]
CM(d, o, u, m) == [exists |-> TRUE, data |-> d, owner |-> o, uid |-> u,
                   managed |-> m]

P(k1, k2) == [k \in Keys |-> IF k = "k1" THEN k1 ELSE k2]
\* the target of another source record
OthersTarget == CM(P("v2", Absent), OtherOwner, OtherUID, TRUE)

-----------------------------------------------------------------------------
(* The target mutator (variables.go).  Each operation reads one target     *)
(* location and the source ConfigMap and issues at most one write.  f is   *)
(* the API call of the operation that fails: "get" the fetch of the target *)
(* (an error other than NotFound), "src" the fetch of the source           *)
(* ConfigMap, "write" the create / update / delete call, "none" no call.   *)
(* The Get and the write of an operation are separate calls: with f one of *)
(* Races another writer acts on the target between them, and the write is  *)
(* refused (NotFound, AlreadyExists, Conflict on the resourceVersion).     *)
(* The result is the target as stored afterwards, the error returned and   *)
(* the write issued.                                                       *)

\* what another writer does between the Get and the write: "gone" deletes
\* the target, "taken" leaves there the target of another source record,
\* "edited" changes the payload
Races == {"gone", "taken", "edited"}
FailKinds == {"none", "get", "src", "write"} \cup Races

OpResult(cm, err, write) == [cm |-> cm, err |-> err, write |-> write]

EditedPayload == P("v1", "v1")
RacedTo(cm, f) ==
    IF f = "gone" THEN NoCM
    ELSE IF f = "taken" THEN OthersTarget
    ELSE [cm EXCEPT !.data = EditedPayload]
\* the other writer had something to do: there was a target to delete or
\* to edit, and what it left differs from what the Get returned
Raced(cm, f) ==
    /\ f \in Races
    /\ f \in {"gone", "edited"} => cm.exists
    /\ RacedTo(cm, f) # cm

\* r.Create / r.Update of the object the Get returned, changed to new
Written(cm, new, f, msg, write) ==
    IF f = "write" THEN OpResult(cm, msg, write)
    ELSE IF Raced(cm, f) THEN OpResult(RacedTo(cm, f), msg, write)
    ELSE OpResult(new, "nil", write)

\* ensureConfigMap if adoption also copied the source's payload
ensureConfigMapOverwriting(cm, src, f) ==
    IF f = "get" THEN OpResult(cm, "get target failed", "none")
    ELSE IF cm.exists THEN
        LET new == [cm EXCEPT !.owner = MyOwner, !.managed = TRUE, !.uid = CmpUID,
                              !.data = IF src.exists THEN src.data ELSE @]
        IN  IF new = cm THEN OpResult(cm, "nil", "none")
            ELSE Written(cm, new, f,
                         "failed to patch labels/annotations on existing configmap", "update")
    ELSE IF f = "src" \/ ~src.exists
         THEN OpResult(cm, "failed to get source ConfigMap", "none")
    ELSE Written(cm, CM(src.data, MyOwner, CmpUID, TRUE), f,
                 "failed to create propagated configmap", "create")

ensureConfigMap(cm, src, f) ==
    IF f = "get" THEN OpResult(cm, "get target failed", "none")
    ELSE IF cm.exists THEN
        LET patched == cm.owner # MyOwner \/ ~cm.managed \/ cm.uid # CmpUID
            new == [cm EXCEPT !.owner = MyOwner, !.managed = TRUE, !.uid = CmpUID]
        IN  IF ~patched THEN OpResult(cm, "nil", "none")
            ELSE Written(cm, new, f,
                         "failed to patch labels/annotations on existing configmap", "update")
    ELSE IF f = "src" \/ ~src.exists
         THEN OpResult(cm, "failed to get source ConfigMap", "none")
    ELSE Written(cm, CM(src.data, MyOwner, CmpUID, TRUE), f,
                 "failed to create propagated configmap", "create")

\* the payload updateIfNeeded wants the target to have
desiredData(policy, target, src) ==
    IF policy = "Overwrite" THEN Decoded(src.data)
    ELSE CopyInto(CopyInto(MakeMap, Decoded(target.data)), Decoded(src.data))

\* the comparison that decides whether updateIfNeeded writes
SameData(a, b) == DeepEqual(a, b)

updateIfNeeded(policy, cm, src, f) ==
    IF f = "get" THEN OpResult(cm, "get target failed", "none")
    ELSE IF ~cm.exists THEN OpResult(cm, "nil", "none")
    ELSE IF f = "src" \/ ~src.exists
         THEN OpResult(cm, "failed to get source configmap for update", "none")
    ELSE LET want == desiredData(policy, cm, src)
         IN  IF SameData(Decoded(cm.data), want) THEN OpResult(cm, "nil", "none")
             ELSE Written(cm, [cm EXCEPT !.data = want.kv], f,
                          "failed to update target configmap", "update")

\* deleteConfigMap if a target that is not found were reported as an error
deleteConfigMapStrict(cm, f) ==
    IF f = "get" \/ ~cm.exists THEN OpResult(cm, "get target failed", "none")
    ELSE IF f = "write" THEN OpResult(cm, "delete failed", "delete")
    \* r.Delete carries no precondition: it is refused only when the target
    \* is gone, and deletes whatever another writer left
    ELSE IF Raced(cm, f) /\ f = "gone" THEN OpResult(NoCM, "delete failed", "delete")
    ELSE OpResult(NoCM, "nil", "delete")

deleteConfigMap(cm, f) ==
    IF f = "get" THEN OpResult(cm, "get target failed", "none")
    ELSE IF ~cm.exists THEN OpResult(cm, "nil", "none")
    ELSE IF f = "write" THEN OpResult(cm, "delete failed", "delete")
    \* r.Delete carries no precondition: it is refused only when the target
    \* is gone, and deletes whatever another writer left
    ELSE IF Raced(cm, f) /\ f = "gone" THEN OpResult(NoCM, "delete failed", "delete")
    ELSE OpResult(NoCM, "nil", "delete")

\* (an orphan that takes the markers off without looking at their values)
OrphanedEager(cm) == [cm EXCEPT !.owner = "", !.uid = ""]
\* the markers orphanConfigMap takes off: each one only when it is present
\* and is this source's
Orphaned(cm) ==
    [cm EXCEPT !.owner = IF cm.owner # "" /\ cm.owner = MyOwner THEN "" ELSE cm.owner,
               !.uid = IF cm.uid # "" /\ cm.uid = CmpUID THEN "" ELSE cm.uid]

orphanConfigMap(cm, f) ==
    IF f = "get" THEN OpResult(cm, "get target failed", "none")
    ELSE IF ~cm.exists THEN OpResult(cm, "nil", "none")
    ELSE LET new == Orphaned(cm)
             changed == new # cm
         IN  IF ~changed THEN OpResult(cm, "nil", "none")
             ELSE Written(cm, new, f, "failed to patch configmap to orphan", "update")

-----------------------------------------------------------------------------
(* Desired and current targets, and the diff of SyncTargets *)

\* the namespaces of the cluster in the order a List returns them, and the
\* ones that carry the label the selector "team" asks for
ClusterNamespaces == <<"kube-system", "ns-a", "ns-b", "ns-c">>
TeamNamespaces == {"kube-system", "ns-b", "ns-c"}

\* spec.namespaceSelector: "nil" (absent), "all" ({}), "team" (matchLabels),
\* "invalid" (LabelSelectorAsSelector returns an error)
Selectors == {"nil", "all", "team", "invalid"}
SelectedNamespaces(sel) ==
    SelectSeq(ClusterNamespaces, LAMBDA n : sel = "all" \/ n \in TeamNamespaces)

TargetRef(ns, name) == [Namespace |-> ns, Name |-> name]

\* one step of the loops of getDesiredTargets: append the target unless its
\* namespace is a system namespace that is not allowed or its key was seen
\* (an append that does not consult the seen-set)
AddTargetRepeating(acc, ns, name, allowSystem) ==
    IF ~allowSystem /\ ns \in defaultSystemNamespaces THEN acc
    ELSE [seen |-> acc.seen \cup {KeyOf(Target(ns, name))},
          targets |-> Append(acc.targets, Target(ns, name))]
AddTarget(acc, ns, name, allowSystem) ==
    IF ~allowSystem /\ ns \in defaultSystemNamespaces THEN acc
    ELSE IF KeyOf(Target(ns, name)) \in acc.seen THEN acc
    ELSE [seen |-> acc.seen \cup {KeyOf(Target(ns, name))},
          targets |-> Append(acc.targets, Target(ns, name))]

RECURSIVE ExplicitTargets(_, _, _, _)
ExplicitTargets(refs, i, acc, allowSystem) ==
    IF i > Len(refs) THEN acc
    ELSE ExplicitTargets(refs, i + 1,
            AddTarget(acc, refs[i].Namespace,
                      IF refs[i].Name = "" THEN SourceName ELSE refs[i].Name,
                      allowSystem),
            allowSystem)

RECURSIVE SelectedTargets(_, _, _, _)
SelectedTargets(nsItems, i, acc, allowSystem) ==
    IF i > Len(nsItems) THEN acc
    ELSE SelectedTargets(nsItems, i + 1,
            AddTarget(acc, nsItems[i], SourceName, allowSystem), allowSystem)

\* (a getDesiredTargets that goes on with the explicit targets when the
\* selector cannot be compiled)
getDesiredTargetsLenient(spec, f) ==
    LET explicit == ExplicitTargets(spec.targets, 1,
                        [seen |-> {}, targets |-> <<>>], spec.allowSystemNamespaces)
    IN  IF spec.namespaceSelector \in {"nil", "invalid"}
        THEN [targets |-> explicit.targets, err |-> "nil"]
        ELSE IF f = "desired"
        THEN [targets |-> <<>>, err |-> "list namespaces failed"]
        ELSE [targets |-> SelectedTargets(SelectedNamespaces(spec.namespaceSelector),
                              1, explicit, spec.allowSystemNamespaces).targets,
              err |-> "nil"]
\* f = "desired": the List of namespaces returns an error
getDesiredTargets(spec, f) ==
    LET explicit == ExplicitTargets(spec.targets, 1,
                        [seen |-> {}, targets |-> <<>>], spec.allowSystemNamespaces)
    IN  IF spec.namespaceSelector = "nil"
        THEN [targets |-> explicit.targets, err |-> "nil"]
        ELSE IF spec.namespaceSelector = "invalid"
        THEN [targets |-> <<>>, err |-> "invalid label selector"]
        ELSE IF f = "desired"
        THEN [targets |-> <<>>, err |-> "list namespaces failed"]
        ELSE [targets |-> SelectedTargets(SelectedNamespaces(spec.namespaceSelector),
                              1, explicit, spec.allowSystemNamespaces).targets,
              err |-> "nil"]

\* the order in which a List returns the target ConfigMaps
LocOrder == <<Target("ns-a", SourceName), Target("ns-b", SourceName),
              Target("ns-c", SourceName)>>

\* (a discovery that finds no current target, as a run would that relied
\* on what an earlier run had in memory)
getCurrentTargetsForgetful(st, f) ==
    IF f = "current" THEN [targets |-> <<>>, err |-> "list configmaps failed"]
    ELSE [targets |-> <<>>, err |-> "nil"]
\* f = "current": the List of ConfigMaps returns an error
getCurrentTargets(st, f) ==
    IF f = "current" THEN [targets |-> <<>>, err |-> "list configmaps failed"]
    ELSE [targets |-> SelectSeq(LocOrder,
                        LAMBDA l : st[l].exists /\ st[l].owner = MyOwner),
          err |-> "nil"]

\* m := make(map[string]*PropagatorTarget); for _, t := range list { m[key] = t }
TargetMap(list) ==
    [k \in {KeyOf(list[i]) : i \in DOMAIN list} |->
        list[CHOOSE i \in DOMAIN list :
                /\ KeyOf(list[i]) = k
                /\ \A j \in DOMAIN list : KeyOf(list[j]) = k => j <= i]]

toCreateOf(desiredMap, currentMap) ==
    {desiredMap[k] : k \in DOMAIN desiredMap \ DOMAIN currentMap}
\* (a diff that takes every desired target for an update)
toUpdateEveryDesired(desiredMap, currentMap) ==
    {desiredMap[k] : k \in DOMAIN desiredMap}
toUpdateOf(desiredMap, currentMap) ==
    {desiredMap[k] : k \in DOMAIN desiredMap \cap DOMAIN currentMap}
toDeleteOf(desiredMap, currentMap) ==
    {currentMap[k] : k \in DOMAIN currentMap \ DOMAIN desiredMap}

Diff(desired, current) ==
    LET desiredMap == TargetMap(desired)
        currentMap == TargetMap(current)
    IN  [toCreate |-> toCreateOf(desiredMap, currentMap),
         toUpdate |-> toUpdateOf(desiredMap, currentMap),
         toDelete |-> toDeleteOf(desiredMap, currentMap)]

-----------------------------------------------------------------------------
(* Errors, results and the status sub-object *)

\* an error value: its text, the target keys joined into it, and the
\* sentinel errors it wraps (what errors.Is finds)
NilErr == [msg |-> "nil", parts |-> <<>>, wraps |-> {}]
Err(m) == [msg |-> m, parts |-> <<>>, wraps |-> {}]
\* fmt.Errorf("%v: %s", ErrDeletingTargets, strings.Join(parts, ","))
DeletingTargetsErr(parts) == [msg |-> ErrDeletingTargets, parts |-> parts, wraps |-> {}]

\* ctrl.Result and the error returned with it
Result(after, requeue, err) == [requeueAfter |-> after, requeue |-> requeue, err |-> err]

ZeroSummary == [total |-> 0, created |-> 0, updated |-> 0, deleted |-> 0,
                orphaned |-> 0, failed |-> 0]

EmptyStatus ==
    [conditions |-> <<>>, observedGeneration |-> 0, lastSyncedAt |-> 0,
     targetsSummary |-> ZeroSummary, targetStatuses |-> <<>>,
     syncedResourceVersion |-> 0, syncedGeneration |-> "", lastSuccessfulSync |-> 0]

TargetStatus(t, reason, message) ==
    [Namespace |-> t.Namespace, Name |-> t.ConfigmapName, State |-> "Failed",
     Reason |-> reason, Message |-> message]

\* meta.SetStatusCondition: the condition of the same type is overwritten
\* (its transition time only when the status changes), a new type is appended
SetStatusCondition(conds, c, t) ==
    IF \E i \in DOMAIN conds : conds[i].type = c.type
    THEN LET i == CHOOSE j \in DOMAIN conds : conds[j].type = c.type
         IN  [conds EXCEPT ![i] =
                [type |-> c.type, status |-> c.status, reason |-> c.reason,
                 message |-> c.message,
                 lastTransitionTime |-> IF conds[i].status # c.status THEN t
                                        ELSE conds[i].lastTransitionTime]]
    ELSE Append(conds, [type |-> c.type, status |-> c.status, reason |-> c.reason,
                        message |-> c.message, lastTransitionTime |-> t])

\* fmt.Sprintf("%s/%s", t.Namespace, t.Name) for every entry of the detail list
FailedParts(statuses) ==
    [i \in DOMAIN statuses |-> statuses[i].Namespace \o "/" \o statuses[i].Name]

-----------------------------------------------------------------------------
(* SyncTargets (configmap_sync.go) *)

\* what one target operation did: the operation, the target before and
\* after, the error returned, the write issued
Op(kind, before, r) ==
    [op |-> kind, before |-> before, cm |-> r.cm, err |-> r.err, write |-> r.write]
NoOp(cm) == Op("none", cm, OpResult(cm, "nil", "none"))
NoOps(st) == [l \in Locs |-> NoOp(st[l])]
\* no target anywhere
NoStore == [l \in Locs |-> NoCM]
\* nothing returned: Reconcile did not get to its return
NoResult == Result(0, FALSE, NilErr)

Failing(ops, kinds) == {l \in Locs : ops[l].op \in kinds /\ ops[l].err # "nil"}
Succeeding(ops, kinds) == {l \in Locs : ops[l].op \in kinds /\ ops[l].err = "nil"}

\* targetSummary.Failed: the create, delete and orphan loops count a failure
FailedCount(ops) == Cardinality(Failing(ops, {"create", "delete", "orphan"}))

\* targetStatuses: the create and update loops append an entry for a failure
DetailKinds == {"create", "update"}

\* (loops that stop at the first failing target, in the order of LocOrder)
SyncOpAborting(spec, diff, st, src, ft, l) ==
    IF \E i, j \in DOMAIN LocOrder :
            i < j /\ LocOrder[j] = l /\ ft[LocOrder[i]] # "none"
    THEN NoOp(st[l])
    ELSE IF l \in diff.toCreate THEN Op("create", st[l], ensureConfigMap(st[l], src, ft[l]))
    ELSE IF l \in diff.toUpdate
    THEN Op("update", st[l], updateIfNeeded(spec.propagationPolicy, st[l], src, ft[l]))
    ELSE IF l \in diff.toDelete /\ spec.deletionPolicy = "Delete"
    THEN Op("delete", st[l], deleteConfigMap(st[l], ft[l]))
    ELSE IF l \in diff.toDelete /\ spec.deletionPolicy = "Orphan"
    THEN Op("orphan", st[l], orphanConfigMap(st[l], ft[l]))
    ELSE NoOp(st[l])
\* the operation of the three loops on location l
SyncOp(spec, diff, st, src, ft, l) ==
    IF l \in diff.toCreate THEN Op("create", st[l], ensureConfigMap(st[l], src, ft[l]))
    ELSE IF l \in diff.toUpdate
    THEN Op("update", st[l], updateIfNeeded(spec.propagationPolicy, st[l], src, ft[l]))
    ELSE IF l \in diff.toDelete /\ spec.deletionPolicy = "Delete"
    THEN Op("delete", st[l], deleteConfigMap(st[l], ft[l]))
    ELSE IF l \in diff.toDelete /\ spec.deletionPolicy = "Orphan"
    THEN Op("orphan", st[l], orphanConfigMap(st[l], ft[l]))
    ELSE NoOp(st[l])

Summary(ops) ==
    [total |-> Cardinality({l \in Locs : ops[l].op # "none"}),
     created |-> Cardinality(Succeeding(ops, {"create"})),
     updated |-> Cardinality(Succeeding(ops, {"update"})),
     deleted |-> Cardinality(Succeeding(ops, {"delete"})),
     orphaned |-> Cardinality(Succeeding(ops, {"orphan"})),
     failed |-> FailedCount(ops)]

DetailMessage(kind) ==
    IF kind = "create" THEN "Failed to Ensure the configmap"
    ELSE "Failed to update the configmap"

\* the detail list: failed creates in the order the desired map was
\* ranged over (ord), then failed updates in that order
Details(ops, ord) ==
    LET entry(l) == TargetStatus(l, ops[l].err, DetailMessage(ops[l].op))
        failedIn(kind) ==
            SelectSeq(ord, LAMBDA l : kind \in DetailKinds /\ ops[l].op = kind
                                      /\ ops[l].err # "nil")
        creates == failedIn("create")
        updates == failedIn("update")
    IN  [i \in 1..Len(creates) |-> entry(creates[i])] \o
        [i \in 1..Len(updates) |-> entry(updates[i])]

\* the status SyncTargets builds from the outcome of the loops
BuildStatus(obj, ops, ord, t) ==
    LET summary == Summary(ops)
        statuses == Details(ops, ord)
        base == [obj.status EXCEPT !.targetsSummary = summary,
                                   !.targetStatuses = statuses,
                                   !.lastSyncedAt = t]
    IN  IF summary.failed > 0
        THEN [base EXCEPT !.conditions =
                SetStatusCondition(@, [type |-> "UnReady", status |-> "False",
                    reason |-> "SyncFailed",
                    message |-> <<"Sync Failed for: ">> \o FailedParts(statuses)], t)]
        ELSE [base EXCEPT !.syncedResourceVersion = obj.rv,
                          !.conditions =
                SetStatusCondition(@, [type |-> "Ready", status |-> "True",
                    reason |-> "Synced",
                    message |-> <<"All Objects have been synced">>], t)]

\* the events of a reconciliation (r.Recorder.Eventf): the reasons recorded
\* for each target, in order, and those recorded for the pass as a whole
NoEvents == [targets |-> [l \in Locs |-> <<>>], pass |-> <<>>]

\* the events the three loops of SyncTargets record for one target operation
SyncOpEvents(op) ==
    IF op.op = "create"
    THEN IF op.err # "nil" THEN <<"CreatedFailed">> ELSE <<>>
    ELSE IF op.op = "update"
    THEN IF op.err # "nil" THEN <<"UpdateFailed">> ELSE <<>>
    ELSE IF op.op = "delete"
    THEN (IF op.err # "nil" THEN <<"DeleteFailed">> ELSE <<>>) \o <<"DeletedTarget">>
    ELSE IF op.op = "orphan"
    THEN (IF op.err # "nil" THEN <<"OrphanFailed">> ELSE <<>>) \o <<"OrphanedTarget">>
    ELSE <<>>

\* What other parties do while a pass is under way, between its calls.
\* pre[l]: what another writer does to the target at l after the List of
\* getCurrentTargets and before the operation on l reads it (Races);
\* src: what the owner of the source ConfigMap does to it while the pass
\* runs (SourceActs); seen: the targets whose operation reads the source
\* after that (every operation reads the source again).
NoFailure == [l \in Locs |-> "none"]
SourceActs == {"edited", "deleted"}
NoInterference == [pre |-> NoFailure, src |-> "none", seen |-> {}]
Interferences ==
    {v \in [pre : [Locs -> {"none"} \cup Races], src : {"none"} \cup SourceActs,
            seen : SUBSET Locs] : v.src = "none" => v.seen = {}}
\* the number of acts of other parties
Interfering(w) ==
    Cardinality({l \in Locs : w.pre[l] # "none"}) + (IF w.src = "none" THEN 0 ELSE 1)

\* the targets as the operations find them
TargetsFound(st, w) ==
    Tabulated([l \in Locs |-> IF Raced(st[l], w.pre[l]) THEN RacedTo(st[l], w.pre[l])
                                ELSE st[l]])

\* the source ConfigMap after its owner's edit / after its owner deleted it
EditedSourcePayload == P("v2", "v1")
SourceEdited(src) == [src EXCEPT !.data = EditedSourcePayload]
SourceDeleted(src) == [src EXCEPT !.exists = FALSE]
\* the source as stored after the pass
SourceAfter(src, w) ==
    IF w.src = "edited" THEN SourceEdited(src)
    ELSE IF w.src = "deleted" THEN SourceDeleted(src)
    ELSE src
\* the source as the operation on l reads it
SourceRead(src, w, l) == IF l \in w.seen THEN SourceAfter(src, w) ELSE src

\* what a reconciliation did and returned
Pass(kind, ops, desired, current, diff, built, patched, pre, cmpWrite, result) ==
    [kind |-> kind, ops |-> ops, desired |-> desired, current |-> current,
     toCreate |-> diff.toCreate, toUpdate |-> diff.toUpdate, toDelete |-> diff.toDelete,
     built |-> built, patched |-> patched, pre |-> pre, cmpWrite |-> cmpWrite,
     result |-> result,
     prior |-> [kind |-> "none", clean |-> FALSE, generation |-> 0, creates |-> {},
                external |-> FALSE, failed |-> FALSE, whole |-> NoStore],
     fl |-> "none",
     events |-> NoEvents,
     w |-> NoInterference,
     readers |-> {},
     external |-> FALSE,
     whole |-> NoStore]

\* a sync pass in which every call succeeded
CleanPass(pass) ==
    /\ pass.kind = "sync"
    /\ \A l \in Locs : pass.ops[l].err = "nil"
    /\ pass.result.err = NilErr

\* what a pass keeps of the pass before it: its kind, whether every call
\* succeeded, the generation it loaded, and of a pass that stopped part way
\* the targets it created, whether another party acted during it, whether
\* one of its operations failed, and the targets as it would have left
\* them had it not stopped
Prior(pass) ==
    [kind |-> pass.kind, clean |-> CleanPass(pass),
     generation |-> IF pass.kind = "none" THEN 0 ELSE pass.pre.generation,
     creates |-> IF pass.kind # "crash" THEN {}
                 ELSE {l \in Locs : pass.ops[l].write = "create"
                                        /\ pass.ops[l].err = "nil"},
     external |-> pass.kind = "crash" /\ pass.external,
     failed |-> pass.kind = "crash" /\ \E l \in Locs : pass.ops[l].err # "nil",
     whole |-> IF pass.kind = "crash" THEN pass.whole ELSE NoStore]

NoDiff == [toCreate |-> {}, toUpdate |-> {}, toDelete |-> {}]

\* obj: the record Reconcile holds; fl: the failing call of the pass
\* ("desired", "current", "patch" or another); ft: the failing call of each
\* target operation.  The result: the store and the stored record
\* afterwards, and the pass.
SyncTargets(obj, stored, st, src, t, fl, ft, ord, w) ==
    LET d == getDesiredTargets(obj.spec, fl)
        c == getCurrentTargets(st, fl)
        diff == Diff(d.targets, c.targets)
        found == TargetsFound(st, w)
        ops == Tabulated([l \in Locs |->
                    SyncOp(obj.spec, diff, found, SourceRead(src, w, l), ft, l)])
        \* the targets whose operation depends on the source it reads
        readers == IF w.src = "none" THEN {}
                   ELSE {l \in Locs :
                            SyncOp(obj.spec, diff, found, SourceAfter(src, w), ft, l)
                                # SyncOp(obj.spec, diff, found, src, ft, l)}
        built == BuildStatus(obj, ops, ord, t)
        differs == built # obj.status
        patchErr == differs /\ fl = "patch"
        result == IF patchErr
                  THEN Result(0, FALSE, Err("failed to update the status of configmappropagator"))
                  ELSE IF built.targetsSummary.failed > 0
                  THEN Result(0, FALSE, Err("failed to sync the targets"))
                  ELSE Result(0, FALSE, NilErr)
    IN  IF d.err # "nil"
        THEN [store |-> st, cmp |-> stored,
              pass |-> [Pass("syncAbort", NoOps(st), <<>>, <<>>, NoDiff, obj.status,
                             FALSE, stored, "none", Result(0, FALSE, Err(d.err)))
                        EXCEPT !.events.pass = <<"Compute Desired Failed">>]]
        ELSE IF c.err # "nil"
        THEN [store |-> st, cmp |-> stored,
              pass |-> [Pass("syncAbort", NoOps(st), d.targets, <<>>, NoDiff, obj.status,
                             FALSE, stored, "none", Result(0, FALSE, Err(c.err)))
                        EXCEPT !.events.pass = <<"List Children Failed">>]]
        ELSE [store |-> [l \in Locs |-> ops[l].cm],
              cmp |-> IF differs /\ ~patchErr
                      THEN [stored EXCEPT !.status = built, !.rv = @ + 1]
                      ELSE stored,
              pass |-> [Pass("sync", ops, d.targets, c.targets, diff, built,
                             differs, stored, "none", result)
                        EXCEPT !.events.targets = [l \in Locs |-> SyncOpEvents(ops[l])],
                               !.readers = readers]]

-----------------------------------------------------------------------------
(* HandleDelete (deletion_targets.go) *)

DeleteOp(spec, st, ft, l) ==
    IF spec.deletionPolicy = "Delete"
    THEN Op("delete", st[l], deleteConfigMap(st[l], ft[l]))
    ELSE IF spec.deletionPolicy = "Orphan"
    THEN Op("orphan", st[l], orphanConfigMap(st[l], ft[l]))
    ELSE NoOp(st[l])

InSeq(x, seq) == \E i \in DOMAIN seq : seq[i] = x

\* kubectl delete of the record: with a finalizer it is marked for
\* deletion, without one it is removed at once
Deleted(obj) ==
    IF obj.finalizer THEN [obj EXCEPT !.deleting = TRUE, !.rv = @ + 1]
    ELSE [obj EXCEPT !.exists = FALSE]
\* an edit of the spec: the store raises metadata.generation
Edited(obj) ==
    [obj EXCEPT !.generation = @ + 1, !.rv = @ + 1,
                !.spec.propagationPolicy = "Overwrite"]
\* the record a user left between the Get and the Update
RecordRacedTo(obj, fl) ==
    IF fl = "recordGone" THEN Deleted(obj)
    ELSE IF fl = "recordEdited" THEN Edited(obj)
    ELSE obj

\* (a HandleDelete that removes the finalizer whatever failed)
MayRemoveFinalizerAlways(failedTargets) == TRUE
\* whether HandleDelete goes on to remove the finalizer
MayRemoveFinalizer(failedTargets) == Len(failedTargets) = 0

\* fl = "current": the List fails; fl = "rmfinalizer": the Update that
\* persists the removal of the finalizer fails; fl = "recordEdited": it is
\* refused as a conflict, a user having edited the record since the Get
HandleDelete(obj, st, fl, ft, w) ==
    LET c == getCurrentTargets(st, fl)
        found == TargetsFound(st, w)
        ops == Tabulated([l \in Locs |-> IF InSeq(l, c.targets)
                                         THEN DeleteOp(obj.spec, found, ft, l)
                                         ELSE NoOp(found[l])])
        failedTargets == SelectSeq(c.targets, LAMBDA l : ops[l].err # "nil")
        parts == [i \in DOMAIN failedTargets |-> KeyOf(failedTargets[i])]
        newStore == [l \in Locs |-> ops[l].cm]
    IN  IF ~obj.finalizer
        THEN [store |-> st, cmp |-> obj,
              pass |-> Pass("delete", NoOps(st), <<>>, <<>>, NoDiff, obj.status,
                            FALSE, obj, "none", Result(0, FALSE, NilErr))]
        ELSE IF c.err # "nil"
        THEN [store |-> st, cmp |-> obj,
              pass |-> Pass("delete", NoOps(st), <<>>, <<>>, NoDiff, obj.status,
                            FALSE, obj, "none", Result(0, FALSE, Err(c.err)))]
        ELSE IF ~MayRemoveFinalizer(failedTargets)
        THEN [store |-> newStore, cmp |-> obj,
              pass |-> Pass("delete", ops, <<>>, c.targets, NoDiff, obj.status,
                            FALSE, obj, "none",
                            Result(0, FALSE, DeletingTargetsErr(parts)))]
        \* the Update is refused: by the server, or because a user edited
        \* the record after Reconcile had read it
        ELSE IF fl \in {"rmfinalizer", "recordEdited"}
        THEN [store |-> newStore, cmp |-> RecordRacedTo(obj, fl),
              pass |-> Pass("delete", ops, <<>>, c.targets, NoDiff, obj.status,
                            FALSE, obj, "removeFinalizer",
                            Result(0, FALSE, Err("update of the source record failed")))]
        \* the record is marked for deletion: with its last finalizer gone
        \* the store removes it
        ELSE [store |-> newStore,
              cmp |-> [obj EXCEPT !.finalizer = FALSE, !.exists = FALSE, !.rv = @ + 1],
              pass |-> Pass("delete", ops, <<>>, c.targets, NoDiff, obj.status,
                            FALSE, obj, "removeFinalizer", Result(0, FALSE, NilErr))]

-----------------------------------------------------------------------------
(* Reconcile (the variant with the resync scheduler) *)

\* fmt.Sprintf("%d", n)
Digit(d) == <<"0", "1", "2", "3", "4", "5", "6", "7", "8", "9">>[d + 1]
RECURSIVE Itoa(_)
Itoa(n) == IF n < 10 THEN Digit(n) ELSE Itoa(n \div 10) \o Digit(n % 10)

\* time in ticks of the clock; the zero time is tick 0
shouldRefresh(obj, t) ==
    LET expected == Itoa(obj.generation)
        st == obj.status
    IN  IF obj.spec.syncMode = "CreatedOnce"
        THEN st.syncedGeneration = "" \/ st.lastSuccessfulSync = 0
        ELSE IF obj.spec.syncMode = "OnChange"
        THEN st.syncedGeneration = "" \/ st.syncedGeneration # expected
        ELSE IF obj.spec.syncMode = "Periodic"
        THEN \/ st.syncedGeneration = "" \/ st.syncedGeneration # expected
             \/ st.lastSyncedAt + obj.spec.syncInterval < t
        ELSE FALSE

getRequeueResult(obj, t) ==
    LET timeSinceLastSync == t - obj.status.lastSyncedAt
        refreshInterval == obj.spec.syncInterval
    IN  IF obj.spec.syncMode \in {"Periodic", "OnChange"} THEN Result(0, FALSE, NilErr)
        ELSE IF timeSinceLastSync < 0 THEN Result(0, TRUE, NilErr)
        ELSE IF timeSinceLastSync < refreshInterval
        THEN Result(refreshInterval - timeSinceLastSync, FALSE, NilErr)
        ELSE Result(0, FALSE, NilErr)

\* the requeue delays of Reconcile, in seconds
RequeueSourceMissing == 300
RequeuePartialDeletion == 30

\* errors.Is(err, ErrDeletingTargets)
IsErrDeletingTargets(err) ==
    ErrDeletingTargets \in err.wraps \/ err = Err(ErrDeletingTargets)

\* fl: the failing call of the pass: "getcmp" the Get of the record,
\* "finalizer" the Update adding the finalizer, "srcget" the Get of the
\* source ConfigMap, and those of SyncTargets and HandleDelete
\* The Get of the record and the Update adding the finalizer are separate
\* calls: with fl one of RecordRaces a user acts on the record between
\* them, deleting it ("recordGone") or editing its spec ("recordEdited"),
\* and the Update is refused (NotFound, Conflict on the resourceVersion).
RecordRaces == {"recordGone", "recordEdited"}
PassFails == {"none", "getcmp", "finalizer", "srcget", "desired", "current",
              "patch", "rmfinalizer"} \cup RecordRaces

\* the record if the finalizer were added in memory and never saved
AddFinalizerUnsaved(stored) == stored
\* the record as stored once the finalizer is on it: controllerutil.AddFinalizer
\* and the Update that persists it, skipped when the finalizer is there
AddFinalizer(stored) ==
    IF stored.finalizer THEN stored
    ELSE [stored EXCEPT !.finalizer = TRUE, !.rv = @ + 1]

Quiet(kind, st, obj, result) ==
    Pass(kind, NoOps(st), <<>>, <<>>, NoDiff, obj.status, FALSE, obj, "none", result)

ReconcileOutcome(stored, st, src, t, fl, ft, ord, w) ==
    IF fl = "getcmp"
    THEN [store |-> st, cmp |-> stored,
          pass |-> Quiet("getErr", st, stored, Result(0, FALSE, Err("get of the source record failed")))]
    ELSE IF ~stored.exists
    THEN [store |-> st, cmp |-> stored,
          pass |-> Quiet("gone", st, stored, Result(0, FALSE, NilErr))]
    ELSE IF stored.deleting
    THEN LET h == HandleDelete(stored, st, fl, ft, w)
             events == IF h.pass.result.err # NilErr THEN <<"Delete Failed">> ELSE <<>>
         IN  IF h.pass.result.err # NilErr /\ IsErrDeletingTargets(h.pass.result.err)
             THEN [h EXCEPT !.pass.result = Result(RequeuePartialDeletion, FALSE, NilErr),
                            !.pass.events.pass = events]
             ELSE [h EXCEPT !.pass.events.pass = events]
    ELSE IF ~stored.finalizer /\ fl \in {"finalizer"} \cup RecordRaces
    THEN [store |-> st, cmp |-> RecordRacedTo(stored, fl),
          pass |-> [Quiet("finalizerErr", st, stored,
                          Result(0, FALSE, Err("update of the source record failed")))
                    EXCEPT !.cmpWrite = "addFinalizer"]]
    ELSE LET obj == AddFinalizer(stored)
             cmpWrite == IF stored.finalizer THEN "none" ELSE "addFinalizer"
         IN  IF ~shouldRefresh(obj, t)
             THEN [store |-> st, cmp |-> obj,
                   pass |-> [Quiet("notDue", st, stored, getRequeueResult(obj, t))
                             EXCEPT !.cmpWrite = cmpWrite]]
             ELSE IF fl = "srcget" \/ ~src.exists
             THEN [store |-> st, cmp |-> obj,
                   pass |-> [Quiet("srcErr", st, stored,
                                   Result(RequeueSourceMissing, FALSE,
                                          Err("get of the source ConfigMap failed")))
                             EXCEPT !.cmpWrite = cmpWrite,
                                    !.events.pass = <<"SourceConfigMap Not Found">>]]
             ELSE LET s == SyncTargets(obj, obj, st, src, t, fl, ft, ord, w)
                  IN  [s EXCEPT !.pass.pre = stored, !.pass.cmpWrite = cmpWrite]

-----------------------------------------------------------------------------
(* The system: the stored records, reconciliations, and the deletion of    *)
(* the source record by a user                                             *)

\* the payloads the source ConfigMap starts with
SourcePayloads == {P("v1", Absent), EmptyPayload}

\* the ConfigMaps a target location starts with: none, one created by
\* somebody else, one of this source whose payload has drifted, one of
\* another source
Foreign == CM(P(Absent, "v2"), "", "", FALSE)
MineDrifted == CM(P("v2", "v2"), MyOwner, CmpUID, TRUE)

InitialStores ==
    {[l \in Locs |-> IF l.Namespace = "ns-a" THEN a
                     ELSE IF l.Namespace = "ns-b" THEN b ELSE c] :
        a \in {NoCM, Foreign, OthersTarget},
        b \in {NoCM, MineDrifted},
        c \in {NoCM, MineDrifted}}

\* spec.targets: ns-a with the default name, ns-b named explicitly
InitialTargets == <<TargetRef("ns-a", ""), TargetRef("ns-b", SourceName)>>

InitialSpecs ==
    {[targets |-> InitialTargets, namespaceSelector |-> "nil",
      allowSystemNamespaces |-> TRUE, deletionPolicy |-> dp,
      propagationPolicy |-> pp, syncMode |-> "OnChange", syncInterval |-> 1,
      createIfMissing |-> TRUE] :
        dp \in {"Delete", "Orphan"}, pp \in {"Merge", "Overwrite"}}

NoPass == Pass("none", [l \in Locs |-> NoOp(NoCM)], <<>>, <<>>, NoDiff, EmptyStatus,
               FALSE, [exists |-> FALSE], "none", Result(0, FALSE, NilErr))

Init ==
    /\ store \in InitialStores
    /\ srcCM \in {[exists |-> TRUE, data |-> d] : d \in SourcePayloads}
    /\ cmp \in {[exists |-> TRUE, finalizer |-> FALSE, deleting |-> FALSE,
                 generation |-> 1, rv |-> 1, spec |-> sp, status |-> EmptyStatus] :
                    sp \in InitialSpecs}
    /\ now = 0
    /\ nfail = 0
    /\ last = NoPass
    /\ fin = <<>>
    /\ fout = <<>>

Injected(fl, ft) ==
    Cardinality({l \in Locs : ft[l] # "none"}) + (IF fl = "none" THEN 0 ELSE 1)

\* the failures a behaviour may meet in one reconciliation, each with the
\* number of failing calls
FailuresWithin ==
    {<<y[1], y[2], Injected(y[1], y[2]), NoInterference>> :
        y \in {z \in PassFails \X [Locs -> FailKinds] :
                    Injected(z[1], z[2]) <= MaxFailures}}
\* the acts of other parties a reconciliation may meet: one act, in a
\* reconciliation in which no call fails
InterferencesWithin ==
    {<<"none", NoFailure, Interfering(w), w>> :
        w \in {v \in Interferences : Interfering(v) = 1}}
\* what a reconciliation may meet: failing calls and acts of other parties
\* within what is left of the MaxFailures of the behaviour
FailureInputs ==
    {x \in FailuresWithin \cup InterferencesWithin : x[3] <= MaxFailures - nfail}

\* the orders in which a Go map of the targets may be ranged over
Orders ==
    {p : p \in {o \in [1..Cardinality(Locs) -> Locs] : \A l \in Locs : InSeq(l, o)}}
\* the targets whose operation may fail in a pass: a call of the operation
\* fails, or it reads the source after the owner of the source deleted it
MayFail(ft, w) ==
    {l \in Locs : ft[l] # "none" \/ (w.src = "deleted" /\ l \in w.seen)}
\* the order matters to the list of failed targets only: the orders that
\* differ in the order of the targets whose operation may fail (the others
\* come last, as in LocOrder)
OrdersOf ==
    [failing \in SUBSET Locs |->
        IF Cardinality(failing) < 2 THEN {LocOrder}
        ELSE {o \in Orders :
                LET rest == SelectSeq(o, LAMBDA l : l \notin failing)
                IN  /\ rest = SelectSeq(LocOrder, LAMBDA l : l \notin failing)
                    /\ \A i \in 1..Len(rest) : o[Len(o) - Len(rest) + i] = rest[i]}]

\* the calls a pass over the record obj gets to: a failure is drawn only
\* for a call the pass makes (PassFailed tells whether it was made)
CallMade(obj, fl, ft) ==
    /\ ~obj.exists => fl \in {"none", "getcmp"} /\ ft = NoFailure
    /\ fl \in {"getcmp", "finalizer", "srcget", "desired", "current", "rmfinalizer"}
            => ft = NoFailure
    /\ fl \in {"finalizer", "recordGone"} => ~obj.deleting /\ ~obj.finalizer
    /\ fl = "recordEdited" => obj.deleting = obj.finalizer
    /\ fl \in RecordRaces => ft = NoFailure
    /\ fl = "recordEdited" => obj.generation < MaxGenerations
    /\ fl = "rmfinalizer" => obj.deleting /\ obj.finalizer
    /\ fl \in {"srcget", "desired", "patch"} => ~obj.deleting

\* the acts of other parties named by w were met by the pass over the
\* targets st, whose maps were ranged over in the order ord: the other
\* writer changed a target that an operation then read; the operations that
\* read the edited source depend on it, and they come after those that read
\* the source before the edit (the create loop runs before the update loop,
\* and each loop takes its targets in the order ord; ord tells the order of
\* the targets whose operation fails)
Met(w, st, pass, ord) ==
    /\ \A l \in Locs : w.pre[l] # "none" =>
            Raced(st[l], w.pre[l]) /\ pass.ops[l].op # "none"
    /\ w.src # "none" => w.seen # {}
    /\ w.seen \subseteq pass.readers
    /\ w.seen \cap pass.toCreate # {} => (pass.readers \cap pass.toUpdate) \subseteq w.seen
    /\ \A i, j \in DOMAIN ord :
            (/\ i < j
             /\ ord[i] \in w.seen /\ pass.ops[ord[i]].err # "nil"
             /\ ord[j] \in pass.readers \ w.seen /\ pass.ops[ord[j]].err # "nil")
                => pass.ops[ord[i]].op # pass.ops[ord[j]].op

\* the failing call named by fl was made and failed
PassFailed(fl, pass) ==
    CASE fl = "none" -> TRUE
      [] fl = "getcmp" -> pass.kind = "getErr"
      [] fl \in {"finalizer", "recordGone"} -> pass.kind = "finalizerErr"
      [] fl = "recordEdited" ->
            \/ pass.kind = "finalizerErr"
            \/ pass.kind = "delete" /\ pass.cmpWrite = "removeFinalizer"
                                    /\ pass.result.err # NilErr
      [] fl = "srcget" -> pass.kind = "srcErr"
      [] fl = "desired" -> pass.result.err = Err("list namespaces failed")
      [] fl = "current" -> pass.result.err = Err("list configmaps failed")
      [] fl = "patch" ->
            pass.result.err = Err("failed to update the status of configmappropagator")
      [] fl = "rmfinalizer" -> pass.kind = "delete" /\ pass.cmpWrite = "removeFinalizer"
                               /\ pass.result.err # NilErr

\* the step of a reconciliation whose outcome is r
Reconciled(r, fl, ft, ord, w) ==
    /\ PassFailed(fl, r.pass)
    /\ \A l \in Locs : ft[l] # "none" => r.pass.ops[l].err # "nil"
    /\ Met(w, store, r.pass, ord)
    /\ store' = r.store
    /\ cmp' = r.cmp
    /\ last' = [r.pass EXCEPT !.prior = Prior(last), !.fl = fl, !.w = w]

Reconcile(fl, ft, ord, w) ==
    /\ now < MaxPasses
    /\ CallMade(cmp, fl, ft)
    /\ Reconciled(ReconcileOutcome(cmp, store, srcCM, now + 1, fl, ft, ord, w),
                  fl, ft, ord, w)
    /\ srcCM' = SourceAfter(srcCM, w)
    /\ now' = now + 1
    /\ nfail' = nfail + Injected(fl, ft) + Interfering(w)
    /\ UNCHANGED <<fin, fout>>

\* kubectl delete of the source record: with a finalizer it is marked for
\* deletion, without one it is removed at once
MarkDeleted ==
    /\ cmp.exists /\ ~cmp.deleting
    /\ cmp' = Deleted(cmp)
    /\ UNCHANGED <<store, srcCM, now, nfail, last, fin, fout>>

Next ==
    \/ \E x \in FailureInputs :
         \E ord \in OrdersOf[MayFail(x[2], x[4])] :
            Reconcile(x[1], x[2], ord, x[4])
    \/ MarkDeleted

Spec == Init /\ [][Next]_vars

-----------------------------------------------------------------------------
(* The same system over the rules a record may carry: every sync mode,     *)
(* createIfMissing, and edits of the spec                                  *)

SyncModes == {"CreatedOnce", "OnChange", "Periodic"}

RuleSpecs ==
    {[targets |-> InitialTargets, namespaceSelector |-> "nil",
      allowSystemNamespaces |-> FALSE, deletionPolicy |-> "Delete",
      propagationPolicy |-> "Merge", syncMode |-> sm, syncInterval |-> 1,
      createIfMissing |-> cim] :
        sm \in SyncModes, cim \in BOOLEAN}

RuleStores ==
    {[l \in Locs |-> NoCM],
     [l \in Locs |-> IF l.Namespace = "ns-a" THEN NoCM ELSE MineDrifted]}

InitRules ==
    /\ store \in RuleStores
    /\ srcCM = [exists |-> TRUE, data |-> P("v1", Absent)]
    /\ cmp \in {[exists |-> TRUE, finalizer |-> FALSE, deleting |-> FALSE,
                 generation |-> 1, rv |-> 1, spec |-> sp, status |-> EmptyStatus] :
                    sp \in RuleSpecs}
    /\ now = 0
    /\ nfail = 0
    /\ last = NoPass
    /\ fin = <<>>
    /\ fout = <<>>

\* an edit of the spec by a user: the store raises metadata.generation
EditSpec ==
    /\ cmp.exists /\ ~cmp.deleting
    /\ cmp.generation < MaxGenerations
    /\ cmp' = Edited(cmp)
    /\ UNCHANGED <<store, srcCM, now, nfail, last, fin, fout>>

NextRules ==
    \/ Next
    \/ EditSpec

SpecRules == InitRules /\ [][NextRules]_vars

-----------------------------------------------------------------------------
(* The same system for records that select their target namespaces by      *)
(* label: no selector, a selector that matches, one that does not compile  *)

SelectorSpecs ==
    {[targets |-> InitialTargets, namespaceSelector |-> sel,
      allowSystemNamespaces |-> FALSE, deletionPolicy |-> "Delete",
      propagationPolicy |-> "Merge", syncMode |-> "OnChange", syncInterval |-> 1,
      createIfMissing |-> TRUE] :
        sel \in {"nil", "team", "invalid"}}

InitSelector ==
    /\ store \in RuleStores
    /\ srcCM = [exists |-> TRUE, data |-> P("v1", Absent)]
    /\ cmp \in {[exists |-> TRUE, finalizer |-> FALSE, deleting |-> FALSE,
                 generation |-> 1, rv |-> 1, spec |-> sp, status |-> EmptyStatus] :
                    sp \in SelectorSpecs}
    /\ now = 0
    /\ nfail = 0
    /\ last = NoPass
    /\ fin = <<>>
    /\ fout = <<>>

SpecSelector == InitSelector /\ [][Next]_vars

-----------------------------------------------------------------------------
(* The target mutator on its own: one operation on one target location,    *)
(* for every ConfigMap that may be stored there                            *)

L0 == Target("ns-a", SourceName)

Owners == {"", MyOwner, OtherOwner}
UIDs == {"", CmpUID, OtherUID}
ConfigMaps ==
    {NoCM} \cup {CM(d, o, u, m) : d \in Payload, o \in Owners, u \in UIDs, m \in BOOLEAN}

InitMutator ==
    /\ store \in {[l \in Locs |-> IF l = L0 THEN cm ELSE NoCM] : cm \in ConfigMaps}
    /\ srcCM \in {[exists |-> TRUE, data |-> d] : d \in Payload}
                 \cup {[exists |-> FALSE, data |-> EmptyPayload]}
    /\ cmp \in {[exists |-> TRUE, finalizer |-> TRUE, deleting |-> FALSE,
                 generation |-> 1, rv |-> 1, spec |-> sp, status |-> EmptyStatus] :
                    sp \in {x \in InitialSpecs : x.deletionPolicy = "Delete"}}
    /\ now = 0
    /\ nfail = 0
    /\ last = NoPass
    /\ fin = <<>>
    /\ fout = <<>>

\* the operation kind with result r on the target at L0
Mutate(kind, f, r) ==
    /\ last.kind = "none"
    /\ f # "none" => r.err # "nil"
    /\ store' = [store EXCEPT ![L0] = r.cm]
    /\ last' = [NoPass EXCEPT !.kind = "op",
                              !.ops = [NoOps(store) EXCEPT ![L0] = Op(kind, store[L0], r)],
                              !.fl = f]
    /\ UNCHANGED <<srcCM, cmp, now, nfail, fin, fout>>

Ensure(f) == Mutate("create", f, ensureConfigMap(store[L0], srcCM, f))
Update(f) ==
    Mutate("update", f, updateIfNeeded(cmp.spec.propagationPolicy, store[L0], srcCM, f))
Delete(f) == Mutate("delete", f, deleteConfigMap(store[L0], f))
Orphan(f) == Mutate("orphan", f, orphanConfigMap(store[L0], f))

NextMutator ==
    \E f \in FailKinds : Ensure(f) \/ Update(f) \/ Delete(f) \/ Orphan(f)

SpecMutator == InitMutator /\ [][NextMutator]_vars

-----------------------------------------------------------------------------
(* The diff on its own: every pair of lists of target descriptors *)

Descriptors == {Target(ns, n) : ns \in {"ns-a", "ns-b"}, n \in {"cm1", "cm2"}}
RECURSIVE ListsUpTo(_)
ListsUpTo(n) ==
    IF n = 0 THEN {<<>>}
    ELSE LET shorter == ListsUpTo(n - 1)
         IN  shorter \cup {Append(l, d) : l \in shorter, d \in Descriptors}

InitDiff ==
    /\ fin \in {[desired |-> d, current |-> c] :
                    d \in ListsUpTo(MaxLen), c \in ListsUpTo(MaxLen)}
    /\ fout = <<>>
    /\ store = [l \in Locs |-> NoCM]
    /\ srcCM = [exists |-> FALSE, data |-> EmptyPayload]
    /\ cmp = [exists |-> FALSE]
    /\ now = 0
    /\ nfail = 0
    /\ last = NoPass

ComputeDiff ==
    /\ fout = <<>>
    /\ fout' = <<Diff(fin.desired, fin.current)>>
    /\ UNCHANGED <<store, srcCM, cmp, now, nfail, last, fin>>

SpecDiff == InitDiff /\ [][ComputeDiff]_vars

-----------------------------------------------------------------------------
(* The same system for every value spec.deletionPolicy may hold in a       *)
(* stored record: Delete, Orphan, and the empty string of a record that    *)
(* was stored without the defaulting of the API server                     *)

DeletionPolicies == {"Delete", "Orphan", ""}

PolicySpecs ==
    {[targets |-> InitialTargets, namespaceSelector |-> "nil",
      allowSystemNamespaces |-> TRUE, deletionPolicy |-> dp,
      propagationPolicy |-> "Merge", syncMode |-> "OnChange", syncInterval |-> 1,
      createIfMissing |-> TRUE] :
        dp \in DeletionPolicies}

InitPolicies ==
    /\ store \in RuleStores
    /\ srcCM = [exists |-> TRUE, data |-> P("v1", Absent)]
    /\ cmp \in {[exists |-> TRUE, finalizer |-> FALSE, deleting |-> FALSE,
                 generation |-> 1, rv |-> 1, spec |-> sp, status |-> EmptyStatus] :
                    sp \in PolicySpecs}
    /\ now = 0
    /\ nfail = 0
    /\ last = NoPass
    /\ fin = <<>>
    /\ fout = <<>>

SpecPolicies == InitPolicies /\ [][Next]_vars

-----------------------------------------------------------------------------
(* The same system with restarts of the controller: a reconciliation may   *)
(* stop after any prefix of the target operations of its sync pass or of   *)
(* its deletion pass                                                       *)

\* the sets of targets a pass may have attempted when it stops.  SyncTargets:
\* the create loop runs before the update loop, the update loop before the
\* delete loop, and each loop ranges over its targets in any order.
\* HandleDelete: one loop over the listed targets, in the order of the list.
Prefixes(pass) ==
    IF pass.kind = "delete"
    THEN {{pass.current[i] : i \in 1..k} : k \in 0..Len(pass.current)}
    ELSE {done \in SUBSET (pass.toCreate \cup pass.toUpdate \cup pass.toDelete) :
            /\ done \cap pass.toUpdate # {} => pass.toCreate \subseteq done
            /\ done \cap pass.toDelete # {} =>
                    (pass.toCreate \cup pass.toUpdate) \subseteq done}

\* another party changed something while the pass ran: a target or the
\* source between two calls (w), or a target between the Get and the write
\* of its operation (ft)
ExternalChange(ft, w) ==
    w # NoInterference \/ \E l \in Locs : ft[l] \in Races

\* the targets of done whose operation may have been the last the pass got
\* to: done without it is what the pass had attempted before
LastOf(pass, done) == {l \in done : done \ {l} \in Prefixes(pass)}

\* the events recorded for the targets when the pass stops after the
\* operations on the targets in done: those of every operation, or, the
\* process stopping between the return of the last operation and an Eventf
\* after it, only the first of those of the last operation
EventsWhenStopped(pass, done) ==
    LET all == [l \in Locs |-> IF l \in done THEN pass.events.targets[l] ELSE <<>>]
    IN  {all} \cup UNION {{[all EXCEPT ![l] = SubSeq(@, 1, k)] : k \in 0..Len(all[l])} :
                            l \in LastOf(pass, done)}

\* the step of a reconciliation whose outcome would have been r and that
\* stops after the operations on the targets in done
StoppedAfter(r, done, ft, w) ==
    /\ \A l \in Locs : ft[l] # "none" => l \in done /\ r.pass.ops[l].err # "nil"
    \* another writer changed a target after the List: before the operation
    \* on it, or before the pass stopped short of it
    /\ \A l \in Locs : w.pre[l] # "none" =>
            Raced(store[l], w.pre[l]) /\ r.pass.ops[l].op # "none"
    \* the source was changed before the operations that read it, or before
    \* the pass stopped short of them
    /\ w.src # "none" => r.pass.readers # {}
    /\ w.seen \subseteq done \cap r.pass.readers
    /\ w.seen \cap r.pass.toCreate # {} =>
            (r.pass.readers \cap r.pass.toUpdate \cap done) \subseteq w.seen
    /\ store' = [l \in Locs |-> IF l \in done THEN r.store[l]
                                ELSE TargetsFound(store, w)[l]]
    \* SyncTargets runs after the finalizer was added; HandleDelete writes
    \* the record after its loop only
    /\ cmp' = IF r.pass.kind = "delete" THEN cmp
              ELSE [r.cmp EXCEPT !.status = cmp.status,
                                 !.rv = IF cmp.finalizer THEN cmp.rv ELSE cmp.rv + 1]
    \* the process is gone: no result is returned, no status built, and the
    \* events recorded after the loops are not recorded
    /\ \E recorded \in EventsWhenStopped(r.pass, done) :
         last' = [r.pass EXCEPT
                  !.kind = "crash",
                  !.ops = [l \in Locs |-> IF l \in done THEN r.pass.ops[l]
                                           ELSE NoOp(store[l])],
                  !.events = [targets |-> recorded, pass |-> <<>>],
                  !.built = cmp.status,
                  !.patched = FALSE,
                  !.result = NoResult,
                  !.readers = @ \cap done,
                  !.cmpWrite = IF r.pass.kind = "delete" THEN "none" ELSE @,
                  !.prior = Prior(last),
                  !.w = w,
                  !.external = ExternalChange(ft, w),
                  !.whole = IF ExternalChange(ft, w) \/ ft # NoFailure THEN NoStore
                            ELSE r.store]

\* the step of a reconciliation whose outcome would have been r and that
\* stops part way through its loops
Stopped(r, ft, w) ==
    /\ r.pass.kind \in {"sync", "delete"}
    /\ \E done \in Prefixes(r.pass) : StoppedAfter(r, done, ft, w)

\* a reconciliation that reaches SyncTargets or HandleDelete, carries out
\* the operations on some of the targets and stops there: the status is
\* not written, the finalizer is not removed and nothing is returned
Interrupted(ft, w) ==
    /\ now < MaxPasses
    /\ Injected("none", ft) + Interfering(w) <= MaxFailures - nfail
    /\ CallMade(cmp, "none", ft)
    /\ Stopped(ReconcileOutcome(cmp, store, srcCM, now + 1, "none", ft, LocOrder, w), ft, w)
    /\ srcCM' = SourceAfter(srcCM, w)
    /\ now' = now + 1
    /\ nfail' = nfail + Injected("none", ft) + Interfering(w)
    /\ UNCHANGED <<fin, fout>>

\* what a reconciliation that stops may have met: one failing call or one
\* act of another party
StopInputs == {x : x \in {y \in FailuresWithin \cup InterferencesWithin :
                            y[1] = "none" /\ y[3] <= 1}}

\* (in a reconciliation that meets nothing no operation fails: the order of
\* the maps does not show; nor does it in one that stops, which builds no
\* status)
NextCrash ==
    \/ Reconcile("none", NoFailure, LocOrder, NoInterference)
    \/ \E x \in StopInputs : Interrupted(x[2], x[4])
    \/ MarkDeleted

\* the records of the claim about restarts: those with the Delete policy
\* (and the Merge policy, under which an adopted target keeps its own keys)
CrashSpecs ==
    {sp : sp \in {x \in InitialSpecs : x.deletionPolicy = "Delete"
                                        /\ x.propagationPolicy = "Merge"}}

InitCrash ==
    /\ store \in InitialStores
    /\ srcCM = [exists |-> TRUE, data |-> P("v1", Absent)]
    /\ cmp \in {[exists |-> TRUE, finalizer |-> FALSE, deleting |-> FALSE,
                 generation |-> 1, rv |-> 1, spec |-> sp, status |-> EmptyStatus] :
                    sp \in CrashSpecs}
    /\ now = 0
    /\ nfail = 0
    /\ last = NoPass
    /\ fin = <<>>
    /\ fout = <<>>

SpecCrash == InitCrash /\ [][NextCrash]_vars

-----------------------------------------------------------------------------
(* The same system with a fault that persists: every reconciliation may    *)
(* meet one failing call, as when a target namespace rejects writes        *)

\* at most one failing call in a reconciliation
OneFailure == {x : x \in {y \in FailuresWithin \cup InterferencesWithin : y[3] <= 1}}

NextRetry ==
    \E x \in OneFailure :
        \E ord \in OrdersOf[MayFail(x[2], x[4])] :
            Reconcile(x[1], x[2], ord, x[4])

SpecRetry == Init /\ [][NextRetry]_vars

-----------------------------------------------------------------------------
(* The scheduler on its own: shouldRefresh and getRequeueResult for every  *)
(* sync mode, generation, recorded generation and time                     *)

Clock == 0..MaxClock
Generations == 1..MaxGenerations
\* Status.SyncedGeneration: empty, or the decimal text of a generation
SyncedGenerations == {""} \cup {Itoa(g) : g \in Generations}

ScheduledRecords ==
    {[exists |-> TRUE, finalizer |-> TRUE, deleting |-> FALSE, generation |-> g, rv |-> 1,
      spec |-> [targets |-> InitialTargets, namespaceSelector |-> "nil",
                allowSystemNamespaces |-> TRUE, deletionPolicy |-> "Delete",
                propagationPolicy |-> "Merge", syncMode |-> sm, syncInterval |-> iv,
                createIfMissing |-> TRUE],
      status |-> [EmptyStatus EXCEPT !.syncedGeneration = sg,
                                     !.lastSuccessfulSync = ls,
                                     !.lastSyncedAt = la]] :
        g \in Generations, sm \in SyncModes \cup {""}, iv \in Clock,
        sg \in SyncedGenerations, ls \in {0, 1}, la \in Clock}

InitScheduler ==
    /\ fin \in {[obj |-> o, t |-> t] : o \in ScheduledRecords, t \in Clock}
    /\ fout = <<>>
    /\ store = [l \in Locs |-> NoCM]
    /\ srcCM = [exists |-> FALSE, data |-> EmptyPayload]
    /\ cmp = [exists |-> FALSE]
    /\ now = 0
    /\ nfail = 0
    /\ last = NoPass

Schedule ==
    /\ fout = <<>>
    /\ fout' = <<[due |-> shouldRefresh(fin.obj, fin.t),
                  wait |-> getRequeueResult(fin.obj, fin.t)]>>
    /\ UNCHANGED <<store, srcCM, cmp, now, nfail, last, fin>>

SpecScheduler == InitScheduler /\ [][Schedule]_vars

-----------------------------------------------------------------------------
(* Properties *)

Range(seq) == {seq[i] : i \in DOMAIN seq}
AttemptKinds == {"create", "update", "delete", "orphan"}
\* the targets whose operation failed / succeeded in the last pass
FailedTargets == Failing(last.ops, AttemptKinds)
SucceededTargets == Succeeding(last.ops, AttemptKinds)

\* the last reconciliation ran HandleDelete on a record that carried the
\* finalizer, and the listing of its targets succeeded
DeletePassRan ==
    /\ last.kind = "delete"
    /\ last.pre.finalizer
    /\ last.result.err # Err("list configmaps failed")

\* the stored record no longer carries the finalizer
FinalizerRemoved == ~cmp.finalizer

\* a failure of a target leaves the finalizer and returns the error with
\* the text of ErrDeletingTargets and the keys of the failed targets
PartialDeletionReported ==
    FailedTargets # {} =>
        /\ ~FinalizerRemoved
        /\ last.cmpWrite = "none"
        /\ last.result.err.msg = ErrDeletingTargets
        /\ Range(last.result.err.parts) = {KeyOf(l) : l \in FailedTargets}
        /\ Len(last.result.err.parts) = Cardinality(FailedTargets)

\* C1 as stated: in HandleDelete with the finalizer present, the finalizer
\* is removed and the update persisted if and only if the delete / orphan
\* of every listed target succeeded; a failure leaves the finalizer and
\* returns the ErrDeletingTargets error naming the failed targets.
C1_FinalizerIffTargetsSucceeded ==
    DeletePassRan =>
        /\ FinalizerRemoved <=> FailedTargets = {}
        /\ PartialDeletionReported

\* C1 amended: the removal of the finalizer is attempted if and only if
\* every listed target succeeded, and it is persisted if and only if the
\* update of the source record succeeds too; when the update fails its
\* error is returned and the stored record keeps the finalizer.
C1_FinalizerGated ==
    DeletePassRan =>
        /\ last.cmpWrite = "removeFinalizer" <=> FailedTargets = {}
        /\ FinalizerRemoved <=> (FailedTargets = {} /\ last.result.err = NilErr)
        \* the record is as the pass read it, or as a user edited it since
        /\ (FailedTargets = {} /\ last.result.err # NilErr) =>
                /\ cmp.exists /\ cmp.finalizer
                /\ cmp \in {last.pre, Edited(last.pre)}
                /\ cmp = Edited(last.pre) <=> last.fl = "recordEdited"
                /\ last.result.err.msg # ErrDeletingTargets
        /\ PartialDeletionReported

\* a deletion pass over two targets of which one failed and one was deleted
\* or orphaned
C1_Witness ==
    /\ DeletePassRan
    /\ FailedTargets # {}
    /\ SucceededTargets # {}
    /\ ~FinalizerRemoved

\* C2: toCreate = D \ C, toUpdate = D \cap C, toDelete = C \ D for the sets
\* D, C of descriptors in the desired and current lists; the three are
\* pairwise disjoint and their union is D \cup C, whatever the order and
\* the repetitions of the lists.
C2_DiffPartition ==
    fout # <<>> =>
        LET D == Range(fin.desired)
            C == Range(fin.current)
            r == fout[1]
        IN  /\ r.toCreate = D \ C
            /\ r.toUpdate = D \cap C
            /\ r.toDelete = C \ D
            /\ r.toCreate \cap r.toUpdate = {}
            /\ r.toCreate \cap r.toDelete = {}
            /\ r.toUpdate \cap r.toDelete = {}
            /\ r.toCreate \cup r.toUpdate \cup r.toDelete = D \cup C

\* a diff of lists with a repeated descriptor in which all three sets are
\* non-empty
C2_Witness ==
    /\ fout # <<>>
    /\ fout[1].toCreate # {} /\ fout[1].toUpdate # {} /\ fout[1].toDelete # {}
    /\ Len(fin.desired) = MaxLen /\ Len(fin.current) = MaxLen

\* the payload the merge law asks for
Overlay(T, S) == [k \in Keys |-> IF S[k] # Absent THEN S[k] ELSE T[k]]
LawfulPayload(policy, T, S) == IF policy = "Overwrite" THEN S ELSE Overlay(T, S)

\* an updateIfNeeded that went through: the target and the source were read
UpdateRan(o) ==
    /\ o.op = "update" /\ o.before.exists
    /\ o.err \notin {"get target failed", "failed to get source configmap for update"}

\* C3: updateIfNeeded computes the new payload by policy (Merge: the
\* target's payload with every source key on top; Overwrite: the source
\* payload) and issues no write when that payload equals the target's
\* current payload.
C3_MergeLawAndSkip ==
    (last.kind = "op" /\ UpdateRan(last.ops[L0])) =>
        LET o == last.ops[L0]
            want == LawfulPayload(cmp.spec.propagationPolicy, o.before.data, srcCM.data)
        IN  /\ o.err = "nil" => o.cm.data = want
            /\ want = o.before.data => o.write = "none"

\* C4: orphanConfigMap takes a marker off only if that marker is this
\* source's (label = "<namespace>.<name>", annotation = UID); a marker
\* that does not match stays, nothing else changes, and when no marker
\* matches no write is issued and the operation succeeds.
C4_OrphanOnlyOwnMarkers ==
    (last.kind = "op" /\ last.ops[L0].op = "orphan") =>
        LET o == last.ops[L0]
        IN  IF o.write # "none" /\ Raced(o.before, last.fl)
            \* another writer changed the target after the Get: the orphan's
            \* own write is refused, the target is what the other writer left
            THEN o.err # "nil" /\ o.cm = RacedTo(o.before, last.fl) /\ o.cm = store[L0]
            ELSE
            /\ o.cm.owner # o.before.owner => (o.before.owner = MyOwner /\ o.cm.owner = "")
            /\ o.cm.uid # o.before.uid => (o.before.uid = CmpUID /\ o.cm.uid = "")
            /\ o.cm = [o.before EXCEPT !.owner = o.cm.owner, !.uid = o.cm.uid]
            /\ o.cm = store[L0]
            /\ (o.before.owner # MyOwner /\ o.before.uid # CmpUID
                    /\ o.err # "get target failed") =>
                   (o.write = "none" /\ o.err = "nil" /\ o.cm = o.before)

\* an orphan of a target that carries this source's label and another
\* record's UID: the label is taken off, the annotation stays
C4_Witness ==
    /\ last.kind = "op" /\ last.ops[L0].op = "orphan"
    /\ last.ops[L0].before.owner = MyOwner /\ last.ops[L0].before.uid = OtherUID
    /\ last.ops[L0].cm.owner = "" /\ last.ops[L0].cm.uid = OtherUID
    /\ last.ops[L0].write = "update"

\* C5: a sync pass that follows a sync pass, both with every operation
\* succeeding and nothing changed in between, issues no create, update or
\* delete against any target.
C5_SecondPassWritesNothing ==
    (last.kind = "sync" /\ last.prior.clean /\ CleanPass(last)) =>
        \A l \in Locs : last.ops[l].write = "none"

\* C6: a sync pass in which an operation on a target failed returns an
\* error.
C6_FailureReturnsError ==
    (last.kind = "sync" /\ FailedTargets # {}) => last.result.err # NilErr

\* C7: the summary's failed is the number of targets whose operation
\* failed, and created / updated / deleted / orphaned the number of
\* operations of each kind that succeeded.
C7_SummaryCounts ==
    last.kind = "sync" =>
        LET s == last.built.targetsSummary
        IN  /\ s.failed = Cardinality(FailedTargets)
            /\ s.created = Cardinality(Succeeding(last.ops, {"create"}))
            /\ s.updated = Cardinality(Succeeding(last.ops, {"update"}))
            /\ s.deleted = Cardinality(Succeeding(last.ops, {"delete"}))
            /\ s.orphaned = Cardinality(Succeeding(last.ops, {"orphan"}))

\* C8: the detail list holds exactly one entry, in state "Failed", for
\* each target whose operation failed and none for a target whose
\* operation succeeded.
C8_DetailPerFailure ==
    last.kind = "sync" =>
        LET d == last.built.targetStatuses
        IN  /\ \A l \in FailedTargets :
                 Cardinality({i \in DOMAIN d : d[i].Namespace = l.Namespace
                                               /\ d[i].Name = l.ConfigmapName
                                               /\ d[i].State = "Failed"}) = 1
            /\ \A i \in DOMAIN d :
                 Target(d[i].Namespace, d[i].Name) \in FailedTargets

\* the conditions the pass set: those of the built status that the loaded
\* status did not hold
WrittenConditions == Range(last.built.conditions) \ Range(last.pre.status.conditions)

\* C9: the condition a sync pass writes is Ready/Synced if and only if no
\* target operation failed; otherwise it is UnReady/SyncFailed and its
\* message lists the keys of exactly the failed targets.
C9_ConditionMatchesOutcome ==
    last.kind = "sync" =>
        \A c \in WrittenConditions :
            IF FailedTargets = {}
            THEN c.type = "Ready" /\ c.reason = "Synced"
            ELSE /\ c.type = "UnReady" /\ c.reason = "SyncFailed"
                 /\ Range(Tail(c.message)) = {KeyOf(l) : l \in FailedTargets}

\* C10: a sync pass in which an operation failed leaves the "last
\* successfully synced" marker at its previous value.
C10_MarkerKeptOnFailure ==
    (last.kind = "sync" /\ FailedTargets # {}) =>
        /\ last.built.syncedResourceVersion = last.pre.status.syncedResourceVersion
        /\ cmp.status.syncedResourceVersion = last.pre.status.syncedResourceVersion

\* the operation kind the pass applies to a target of toDelete or to a
\* target HandleDelete discovered
RemovalKind == IF last.pre.spec.deletionPolicy = "Delete" THEN "delete" ELSE "orphan"

\* C11: in a sync pass every target of toCreate, toUpdate and toDelete is
\* attempted, each by the one operation of its set, and no other target is
\* touched, whichever of the operations fail; in HandleDelete every
\* discovered target is attempted whichever of them fail.
C11_EveryTargetAttempted ==
    /\ last.kind = "sync" =>
          \A l \in Locs :
             /\ l \in last.toCreate => last.ops[l].op = "create"
             /\ l \in last.toUpdate => last.ops[l].op = "update"
             /\ l \in last.toDelete => last.ops[l].op = RemovalKind
             /\ l \notin (last.toCreate \cup last.toUpdate \cup last.toDelete)
                    => (last.ops[l].op = "none" /\ store[l] = last.ops[l].before)
    /\ DeletePassRan =>
          \A l \in Locs :
             IF l \in Range(last.current) THEN last.ops[l].op = RemovalKind
             ELSE last.ops[l].op = "none" /\ store[l] = last.ops[l].before

\* a sync pass in which the operation on the first target failed and the
\* operation on a later target was carried out and wrote
C11_Witness ==
    /\ last.kind = "sync"
    /\ last.ops[LocOrder[1]].op # "none" /\ last.ops[LocOrder[1]].err # "nil"
    /\ \E i \in 2..Len(LocOrder) :
          /\ last.ops[LocOrder[i]].op # "none"
          /\ last.ops[LocOrder[i]].err = "nil"
          /\ last.ops[LocOrder[i]].write # "none"

\* the last reconciliation reached SyncTargets
SyncTargetsRan == last.kind \in {"sync", "syncAbort"}

\* the computation of the desired set or the discovery of the current set
\* failed in the last reconciliation
SetComputationFailed ==
    \/ last.pre.spec.namespaceSelector = "invalid"
    \/ last.fl \in {"desired", "current"}

\* C12: when getDesiredTargets fails (the selector does not compile, or the
\* List of namespaces fails) or getCurrentTargets fails, SyncTargets
\* returns the error and no target is created, updated, deleted or
\* orphaned.
C12_SetFailureAbortsPass ==
    (SyncTargetsRan /\ SetComputationFailed) =>
        /\ last.result.err # NilErr
        /\ \A l \in Locs : /\ last.ops[l].op = "none"
                            /\ last.ops[l].write = "none"
                            /\ store[l] = last.ops[l].before

\* SyncTargets was stopped by a failing List of namespaces while a target
\* of the explicit list was missing and another owned target was stored
C12_Witness ==
    /\ SyncTargetsRan
    /\ last.fl = "desired"
    /\ last.result.err = Err("list namespaces failed")
    /\ ~store[Target("ns-a", SourceName)].exists
    /\ store[Target("ns-c", SourceName)].exists

\* the last reconciliation loaded the record, found it not marked for
\* deletion and came to the decision of shouldRefresh
SchedulerAsked == last.kind \in {"notDue", "srcErr", "sync", "syncAbort"}

\* the reconciliation before the last was an all-success sync pass, and
\* the spec was (was not) edited since
FollowsCleanPassUnedited ==
    last.prior.clean /\ last.prior.generation = last.pre.generation
FollowsCleanPassEdited ==
    last.prior.clean /\ last.prior.generation # last.pre.generation

NoTargetWritten == \A l \in Locs : last.ops[l].write = "none"

\* C13: under OnChange a reconciliation that follows an all-success sync
\* pass goes on to the sync pass if and only if the generation differs
\* from the one that pass synced; with the generation unchanged it is
\* not due and writes no target.
C13_OnChangeDueIffGenerationChanged ==
    (SchedulerAsked /\ last.pre.spec.syncMode = "OnChange") =>
        /\ FollowsCleanPassUnedited => (last.kind = "notDue" /\ NoTargetWritten)
        /\ FollowsCleanPassEdited => last.kind # "notDue"

\* the scheduler was asked about a record of the sync mode
Scheduled(mode) == fout # <<>> /\ fin.obj.spec.syncMode = mode

GenerationDiffers ==
    fin.obj.status.syncedGeneration # Itoa(fin.obj.generation)

\* C14: under Periodic, shouldRefresh reports due if and only if the
\* generation differs from the last-synced generation or
\* now - lastSyncedAt >= interval (at now - lastSyncedAt = interval it is
\* due).
C14_PeriodicDueAtInterval ==
    Scheduled("Periodic") =>
        (fout[1].due <=>
            (GenerationDiffers
                \/ fin.t - fin.obj.status.lastSyncedAt >= fin.obj.spec.syncInterval))

\* C15: under CreatedOnce the first reconciliation of a record is due, and
\* once a sync pass has succeeded no later reconciliation runs a sync pass
\* or writes a target, whether or not the spec was edited since.
C15_CreatedOnceSyncsOnce ==
    (SchedulerAsked /\ last.pre.spec.syncMode = "CreatedOnce") =>
        /\ last.prior.kind = "none" => last.kind # "notDue"
        /\ last.prior.clean => (last.kind = "notDue" /\ NoTargetWritten)

\* an all-success sync pass that follows an all-success sync pass with no
\* edit of the record in between
SecondCleanPass ==
    last.kind = "sync" /\ CleanPass(last) /\ FollowsCleanPassUnedited

\* C16: the summary built by a second sync pass in a row has created =
\* updated = deleted = orphaned = 0 and total = the number of desired
\* targets.
C16_SecondPassSummaryZero ==
    SecondCleanPass =>
        LET s == last.built.targetsSummary
        IN  /\ s.created = 0 /\ s.updated = 0 /\ s.deleted = 0 /\ s.orphaned = 0
            /\ s.total = Cardinality(Range(last.desired))

\* the status the last sync pass built says the same as the persisted
\* one: summary, detail list, conditions and synced marker
SameMaterialStatus ==
    /\ last.built.targetsSummary = last.pre.status.targetsSummary
    /\ last.built.targetStatuses = last.pre.status.targetStatuses
    /\ last.built.conditions = last.pre.status.conditions
    /\ last.built.syncedResourceVersion = last.pre.status.syncedResourceVersion

\* C17: a sync pass whose status has the same summary, detail list,
\* condition and synced marker as the persisted status issues no status
\* patch.
C17_StatusWrittenOnlyOnChange ==
    (last.kind = "sync" /\ SameMaterialStatus) => ~last.patched

\* C18: when HandleDelete fails because a target could not be deleted or
\* orphaned, Reconcile returns a requeue after 30 seconds and no error;
\* any other error of the deletion path is returned as an error.
C18_PartialDeletionRequeued ==
    (last.kind = "delete" /\ last.pre.finalizer) =>
        /\ FailedTargets # {} =>
              last.result = Result(RequeuePartialDeletion, FALSE, NilErr)
        /\ (FailedTargets = {} /\ last.fl \in {"current", "rmfinalizer"}) =>
              (last.result.err # NilErr /\ last.result.requeueAfter = 0)

\* the target locations that hold a ConfigMap with this source's owner label
OwnedTargets == {l \in Locs : store[l].exists /\ store[l].owner = MyOwner}

\* an all-success sync pass under the Delete policy that re-ran a
\* reconciliation which had stopped part way with no other party acting
\* during it / that ran on its own
ResumedPass ==
    /\ last.kind = "sync" /\ CleanPass(last) /\ last.prior.kind = "crash"
    /\ ~last.prior.external
    /\ last.pre.spec.deletionPolicy = "Delete"
UninterruptedPass ==
    /\ last.kind = "sync" /\ CleanPass(last) /\ last.prior.kind = "none"
    /\ last.pre.spec.deletionPolicy = "Delete"

C20_NoCreateUnlessAsked ==
    (last.kind = "sync" /\ ~last.pre.spec.createIfMissing) =>
        \A l \in Locs :
            /\ last.ops[l].write # "create"
            /\ ~last.ops[l].before.exists => ~store[l].exists

\* C21: under Periodic with a sync interval of 0 the record is due only
\* when its generation differs from the last-synced generation, never
\* because time has passed.
C21_ZeroIntervalNeverPeriodic ==
    (Scheduled("Periodic") /\ fin.obj.spec.syncInterval = 0) =>
        (fout[1].due <=> GenerationDiffers)

\* C22: deleteConfigMap deletes the target only if the target it fetches
\* still carries this source's owner label; a target that carries another
\* source's label or none is left as it is.
C22_DeleteOnlyOwnTarget ==
    (last.kind = "op" /\ last.ops[L0].op = "delete" /\ last.ops[L0].before.exists
        /\ last.ops[L0].before.owner # MyOwner) =>
        /\ last.ops[L0].write = "none"
        /\ store[L0] = last.ops[L0].before

\* C23: ensureConfigMap does not rewrite the owner label or the owner-UID
\* annotation of an existing target whose owner label names another
\* source record.
C23_NoTakeOver ==
    (last.kind = "op" /\ last.ops[L0].op = "create" /\ last.ops[L0].before.exists
        /\ last.ops[L0].before.owner = OtherOwner) =>
        /\ store[L0].owner = OtherOwner
        /\ store[L0].uid = last.ops[L0].before.uid
        /\ last.ops[L0].write = "none"

\* the payload T satisfies the propagation policy for the source payload S
PolicySatisfied(policy, T, S) ==
    IF policy = "Overwrite" THEN T = S
    ELSE \A k \in Keys : S[k] # Absent => T[k] = S[k]

\* C24: after a sync pass in which every operation succeeded, every
\* desired target exists and its payload satisfies the propagation policy
\* (Overwrite: equal to the source payload; Merge: every source key with
\* the source's value), targets adopted in that pass included.
C24_CleanPassConverges ==
    (last.kind = "sync" /\ CleanPass(last)) =>
        \A l \in Range(last.desired) :
            /\ store[l].exists
            /\ PolicySatisfied(last.pre.spec.propagationPolicy, store[l].data, srcCM.data)

\* C25: when HandleDelete has removed the finalizer, none of the targets
\* it discovered still carries this source's owner label, whatever the
\* value of spec.deletionPolicy.
C25_NoOwnedTargetAfterFinalizer ==
    (DeletePassRan /\ FinalizerRemoved) =>
        \A l \in Range(last.current) :
            ~(store[l].exists /\ store[l].owner = MyOwner)

-----------------------------------------------------------------------------
(* Reconcile (the variant of controller.go): a record whose                *)
(* status.observedGeneration equals its generation is left alone, before   *)
(* the deletion timestamp is looked at; there is no resync scheduler       *)

ReconcileObservedOutcome(stored, st, src, t, fl, ft, ord, w) ==
    IF fl = "getcmp"
    THEN [store |-> st, cmp |-> stored,
          pass |-> Quiet("getErr", st, stored, Result(0, FALSE, Err("get of the source record failed")))]
    ELSE IF ~stored.exists
    THEN [store |-> st, cmp |-> stored,
          pass |-> Quiet("gone", st, stored, Result(0, FALSE, NilErr))]
    ELSE IF stored.status.observedGeneration = stored.generation
    THEN [store |-> st, cmp |-> stored,
          pass |-> Quiet("observed", st, stored, Result(0, FALSE, NilErr))]
    ELSE IF stored.deleting
    THEN LET h == HandleDelete(stored, st, fl, ft, w)
             \* recorded before the error is looked at
             events == <<"Delete Failed">>
         IN  IF h.pass.result.err # NilErr /\ IsErrDeletingTargets(h.pass.result.err)
             THEN [h EXCEPT !.pass.result = Result(RequeuePartialDeletion, FALSE, NilErr),
                            !.pass.events.pass = events]
             ELSE [h EXCEPT !.pass.events.pass = events]
    ELSE IF ~stored.finalizer /\ fl \in {"finalizer"} \cup RecordRaces
    THEN [store |-> st, cmp |-> RecordRacedTo(stored, fl),
          pass |-> [Quiet("finalizerErr", st, stored,
                          Result(0, FALSE, Err("update of the source record failed")))
                    EXCEPT !.cmpWrite = "addFinalizer"]]
    ELSE LET obj == AddFinalizer(stored)
             cmpWrite == IF stored.finalizer THEN "none" ELSE "addFinalizer"
         IN  IF fl = "srcget" \/ ~src.exists
             THEN [store |-> st, cmp |-> obj,
                   pass |-> [Quiet("srcErr", st, stored,
                                   Result(RequeueSourceMissing, FALSE,
                                          Err("get of the source ConfigMap failed")))
                             EXCEPT !.cmpWrite = cmpWrite,
                                    !.events.pass = <<"SourceConfigMap Not Found">>]]
             ELSE LET s == SyncTargets(obj, obj, st, src, t, fl, ft, ord, w)
                  IN  [s EXCEPT !.pass.pre = stored, !.pass.cmpWrite = cmpWrite]

ReconcileObserved(fl, ft, ord, w) ==
    /\ now < MaxPasses
    /\ CallMade(cmp, fl, ft)
    /\ Reconciled(ReconcileObservedOutcome(cmp, store, srcCM, now + 1, fl, ft, ord, w),
                  fl, ft, ord, w)
    /\ srcCM' = SourceAfter(srcCM, w)
    /\ now' = now + 1
    /\ nfail' = nfail + Injected(fl, ft) + Interfering(w)
    /\ UNCHANGED <<fin, fout>>

\* the values status.observedGeneration may hold when a pass loads the
\* record: the zero value, and the record's generation
ObservedGenerations == {0, 1}

ObservedSpecs ==
    {[targets |-> InitialTargets, namespaceSelector |-> "nil",
      allowSystemNamespaces |-> TRUE, deletionPolicy |-> dp,
      propagationPolicy |-> "Merge", syncMode |-> m, syncInterval |-> 1,
      createIfMissing |-> TRUE] :
        dp \in {"Delete", "Orphan"}, m \in SyncModes}

\* a record before its first pass, one that a pass has given its
\* finalizer, and one that has since been marked for deletion
InitObserved ==
    /\ store \in InitialStores
    /\ srcCM = [exists |-> TRUE, data |-> P("v1", Absent)]
    /\ cmp \in {[exists |-> TRUE, finalizer |-> fd[1], deleting |-> fd[2],
                 generation |-> 1, rv |-> 1, spec |-> sp,
                 status |-> [EmptyStatus EXCEPT !.observedGeneration = og]] :
                    sp \in ObservedSpecs, og \in ObservedGenerations,
                    fd \in {<<FALSE, FALSE>>, <<TRUE, FALSE>>, <<TRUE, TRUE>>}}
    /\ now = 0
    /\ nfail = 0
    /\ last = NoPass
    /\ fin = <<>>
    /\ fout = <<>>

NextObserved ==
    \E x \in FailureInputs :
        \E ord \in OrdersOf[MayFail(x[2], x[4])] :
            ReconcileObserved(x[1], x[2], ord, x[4])

\* the retry of a deletion: a reconciliation of a record marked for
\* deletion that carries the finalizer, whatever it meets (a failing call,
\* a target changed by another writer, an Update refused after an edit of
\* the record)
DeletionRetry ==
    /\ cmp.exists /\ cmp.deleting /\ cmp.finalizer
    /\ NextObserved

\* a deletion is retried as long as the finalizer is there; the failing
\* calls and the acts of other parties are at most MaxFailures
SpecObserved ==
    /\ InitObserved
    /\ [][NextObserved]_vars
    /\ WF_vars(DeletionRetry)

\* C26: a record marked for deletion that carries the finalizer eventually
\* loses it, once the calls stop failing and reconciliation is retried,
\* under the Delete and the Orphan policy and whatever its status and
\* sync mode.
C26_FinalizerEventuallyRemoved ==
    (cmp.exists /\ cmp.deleting /\ cmp.finalizer) ~> ~cmp.finalizer

\* the wake-up the scheduler is to ask for when a reconciliation is not due
ElapsedSinceSync == fin.t - fin.obj.status.lastSyncedAt
ExpectedWait ==
    IF ElapsedSinceSync < 0 THEN Result(0, TRUE, NilErr)
    ELSE IF fin.obj.spec.syncMode \in {"Periodic", "OnChange"}
    THEN Result(IF fin.obj.spec.syncInterval > ElapsedSinceSync
                THEN fin.obj.spec.syncInterval - ElapsedSinceSync ELSE 0,
                FALSE, NilErr)
    ELSE Result(0, FALSE, NilErr)

\* C27: when a reconciliation is not due, getRequeueResult asks for an
\* immediate re-check if lastSyncedAt is in the future; otherwise, for
\* Periodic and OnChange, for a requeue after max(interval - elapsed, 0),
\* and for CreatedOnce for no wake-up at all.
C27_WaitWhenNotDue ==
    (fout # <<>> /\ fin.obj.spec.syncMode \in SyncModes /\ ~fout[1].due) =>
        fout[1].wait = ExpectedWait

\* ensureConfigMap ran on the location L0 and returned no error
EnsureRan ==
    last.kind = "op" /\ last.ops[L0].op = "create" /\ last.ops[L0].err = "nil"

\* what ensureConfigMap leaves at a location that held a record (adoption)
\* and at one that held none (creation)
Adopted(before, after) ==
    /\ after.exists /\ after.data = before.data
    /\ after.owner = MyOwner /\ after.uid = CmpUID
CreatedFromSource(after) ==
    /\ after = CM(srcCM.data, MyOwner, CmpUID, TRUE)
    /\ last.ops[L0].write = "create"

\* C28 as stated: on an existing target ensureConfigMap keeps the payload,
\* sets the owner label and the owner-UID annotation to this source's, and
\* issues an update only if one of those two markers was missing or
\* different; on an empty location it creates a record with the source's
\* payload and both markers.
C28_AdoptOrCreate ==
    EnsureRan =>
        LET before == last.ops[L0].before
        IN  IF before.exists
            THEN /\ Adopted(before, store[L0])
                 /\ last.ops[L0].write \in {"none", "update"}
                 /\ last.ops[L0].write = "update" =>
                        (before.owner # MyOwner \/ before.uid # CmpUID)
            ELSE CreatedFromSource(store[L0])

\* C28, amended: the update is issued exactly when the owner label, the
\* managed-by label or the owner-UID annotation was missing or different,
\* and the managed-by label is set as well; the rest as stated.
C28_AdoptOrCreateAnyMarker ==
    EnsureRan =>
        LET before == last.ops[L0].before
        IN  IF before.exists
            THEN /\ Adopted(before, store[L0])
                 /\ store[L0].managed
                 /\ last.ops[L0].write \in {"none", "update"}
                 /\ last.ops[L0].write = "update" <=>
                        (before.owner # MyOwner \/ before.uid # CmpUID
                            \/ ~before.managed)
            ELSE CreatedFromSource(store[L0])

\* a target that carries both ownership markers of this source with a
\* payload of its own and lacks the managed-by label is updated, payload kept
C28_Witness ==
    /\ EnsureRan
    /\ last.ops[L0].before = CM(P("v2", Absent), MyOwner, CmpUID, FALSE)
    /\ srcCM.exists /\ srcCM.data = P("v1", Absent)
    /\ last.ops[L0].write = "update"
    /\ store[L0] = CM(P("v2", Absent), MyOwner, CmpUID, TRUE)

\* the last reconciliation loaded a record that is marked for deletion
LoadedForDeletion ==
    /\ last.kind \notin {"none", "getErr", "gone"}
    /\ last.pre.exists /\ last.pre.deleting

\* C29: a reconciliation that loads a record marked for deletion runs
\* HandleDelete and nothing else: no sync pass and no resync-due check,
\* whatever the record's sync mode, generation and status.
C29_DeletionTakesPrecedence ==
    LoadedForDeletion => last.kind = "delete"

\* the targets the last reconciliation created or adopted
CreatedOrAdopted ==
    {l \in Locs : last.ops[l].op = "create" /\ last.ops[l].write \in {"create", "update"}}

\* no target carries the owner label of a live record without finalizer
NoTargetOfUnprotectedSource ==
    (cmp.exists /\ ~cmp.finalizer) =>
        \A l \in Locs : ~(store[l].exists /\ store[l].owner = MyOwner)

\* C30: a reconciliation creates or adopts a target only with the
\* finalizer persisted on the record; when the Update that adds the
\* finalizer fails, the error is returned and no target is written; hence
\* no reconciliation brings about a target that carries the owner label of
\* a live record without finalizer.
C30_FinalizerBeforeTargets ==
    [][last' # last =>
        /\ (last'.kind # "op" /\ \E l \in Locs :
                last'.ops[l].op = "create" /\ last'.ops[l].write # "none")
              => (cmp'.exists /\ cmp'.finalizer)
        /\ last'.kind = "finalizerErr" =>
              /\ last'.result.err # NilErr
              /\ store' = store
              /\ \A l \in Locs : last'.ops[l].write = "none"
        /\ NoTargetOfUnprotectedSource => NoTargetOfUnprotectedSource']_vars

\* a first reconciliation put the finalizer on the record and created or
\* adopted a target
C30_Witness ==
    /\ last.kind = "sync" /\ ~last.pre.finalizer /\ last.cmpWrite = "addFinalizer"
    /\ cmp.exists /\ cmp.finalizer
    /\ \E l \in CreatedOrAdopted : store[l].exists /\ store[l].owner = MyOwner

\* updateIfNeeded, deleteConfigMap or orphanConfigMap ran on the location L0
RefetchingOpRan ==
    last.kind = "op" /\ last.ops[L0].op \in {"update", "delete", "orphan"}

\* C31: updateIfNeeded, deleteConfigMap and orphanConfigMap fetch the
\* target first; when it is not found they return nil, issue no write and
\* leave the location empty; when the fetch fails otherwise they return
\* the error and issue no write.
C31_BenignNotFound ==
    RefetchingOpRan =>
        /\ (last.fl # "get" /\ ~last.ops[L0].before.exists) =>
              /\ last.ops[L0].err = "nil"
              /\ last.ops[L0].write = "none"
              /\ ~store[L0].exists
        /\ last.fl = "get" =>
              /\ last.ops[L0].err # "nil"
              /\ last.ops[L0].write = "none"
              /\ store[L0] = last.ops[L0].before

\* a delete of a target that is no longer there returns nil and writes nothing
C31_Witness ==
    /\ last.kind = "op" /\ last.ops[L0].op = "delete"
    /\ ~last.ops[L0].before.exists /\ last.fl = "none"
    /\ last.ops[L0].err = "nil" /\ last.ops[L0].write = "none"
    /\ ~store[L0].exists

-----------------------------------------------------------------------------
(* getDesiredTargets on its own: every list of explicit targets up to      *)
(* MaxLen entries, every selector, allowSystemNamespaces on and off        *)

RefNamespaces == {"kube-system", "ns-a", "ns-b"}
RefNames == {"", SourceName, "cm2"}
TargetRefs == {TargetRef(ns, n) : ns \in RefNamespaces, n \in RefNames}

RECURSIVE RefListsUpTo(_)
RefListsUpTo(n) ==
    IF n = 0 THEN {<<>>}
    ELSE LET shorter == RefListsUpTo(n - 1)
         IN  shorter \cup {Append(l, r) : l \in shorter, r \in TargetRefs}

DesiredInputs ==
    {[spec |-> [targets |-> refs, namespaceSelector |-> sel,
                allowSystemNamespaces |-> sys],
      f |-> f] :
        refs \in RefListsUpTo(MaxLen), sel \in Selectors, sys \in BOOLEAN,
        f \in {"none", "desired"}}

InitDesired ==
    /\ fin \in {x \in DesiredInputs :
                    x.f = "desired" => x.spec.namespaceSelector \in {"all", "team"}}
    /\ fout = <<>>
    /\ store = [l \in Locs |-> NoCM]
    /\ srcCM = [exists |-> FALSE, data |-> EmptyPayload]
    /\ cmp = [exists |-> FALSE]
    /\ now = 0
    /\ nfail = 0
    /\ last = NoPass

ComputeDesired ==
    /\ fout = <<>>
    /\ fout' = <<getDesiredTargets(fin.spec, fin.f)>>
    /\ UNCHANGED <<store, srcCM, cmp, now, nfail, last, fin>>

SpecDesired == InitDesired /\ [][ComputeDesired]_vars

\* the set of descriptors the spec asks for
ResolvedName(ref) == IF ref.Name = "" THEN SourceName ELSE ref.Name
AskedFor(spec) ==
    LET explicit == {Target(r.Namespace, ResolvedName(r)) : r \in Range(spec.targets)}
        selected == IF spec.namespaceSelector \in {"all", "team"}
                    THEN {Target(ns, SourceName) :
                            ns \in Range(SelectedNamespaces(spec.namespaceSelector))}
                    ELSE {}
    IN  {t \in explicit \cup selected :
            spec.allowSystemNamespaces \/ t.Namespace \notin defaultSystemNamespaces}

NoRepeats(list) ==
    \A i, j \in DOMAIN list : i # j => KeyOf(list[i]) # KeyOf(list[j])

\* C32: getDesiredTargets returns exactly the explicit targets (name
\* defaulted to the source's) and, with a selector, the matching
\* namespaces under the source's name, without the reserved system
\* namespaces when allowSystemNamespaces is false, each descriptor once.
C32_DesiredSetExact ==
    (fout # <<>> /\ fout[1].err = "nil") =>
        /\ Range(fout[1].targets) = AskedFor(fin.spec)
        /\ NoRepeats(fout[1].targets)

\* the same descriptor asked for twice and once more through the selector,
\* and a system namespace left out
C32_Witness ==
    /\ fout # <<>>
    /\ fin.spec.targets = <<TargetRef("ns-b", ""), TargetRef("ns-b", SourceName)>>
    /\ fin.spec.namespaceSelector = "team" /\ ~fin.spec.allowSystemNamespaces
    /\ fout[1] = [targets |-> <<Target("ns-b", SourceName), Target("ns-c", SourceName)>>,
                  err |-> "nil"]

\* C33: status.conditions of the stored record never holds a Ready/Synced
\* condition together with an UnReady/SyncFailed condition: it shows the
\* outcome of the latest sync pass only.
C33_ConditionsOfLatestPassOnly ==
    cmp.exists =>
        ~\E c, d \in Range(cmp.status.conditions) :
            /\ c.type = "Ready" /\ c.reason = "Synced"
            /\ d.type = "UnReady" /\ d.reason = "SyncFailed"

\* the event reasons that report a success, and those that report a failure
SuccessReasons == {"DeletedTarget", "OrphanedTarget"}
FailureReasons == {"CreatedFailed", "UpdateFailed", "DeleteFailed", "OrphanFailed"}

\* HandleDelete returned an error to Reconcile
HandleDeleteFailed ==
    last.result.err # NilErr \/ last.result.requeueAfter = RequeuePartialDeletion

\* C34: every create, update, delete or orphan attempt on a target records
\* exactly one event, a success reason only when the operation succeeded
\* and a failure reason only when it failed; on the deletion path "Delete
\* Failed" is recorded only when HandleDelete returned an error.
C34_OneEventPerAttempt ==
    /\ last.kind \in {"sync", "delete"} =>
          \A l \in Locs : last.ops[l].op # "none" =>
              /\ Len(last.events.targets[l]) = 1
              /\ \A r \in Range(last.events.targets[l]) :
                    /\ r \in SuccessReasons => last.ops[l].err = "nil"
                    /\ r \in FailureReasons => last.ops[l].err # "nil"
    /\ (last.kind = "delete" /\ "Delete Failed" \in Range(last.events.pass)) =>
          HandleDeleteFailed

-----------------------------------------------------------------------------
(* The reconciler of configmappropagation_controller.go: it keeps the      *)
(* finalizer on the record and touches neither a target nor the status     *)

\* its HandleDelete: with the finalizer and the Orphan policy the finalizer
\* is taken off the object in memory, and no Update follows: the stored
\* record is left as it is under either policy
HandleDeleteFinalizerOnly(obj, st) ==
    [store |-> st, cmp |-> obj,
     pass |-> Quiet("delete", st, obj, Result(0, FALSE, NilErr))]

\* fl: "getcmp" the Get of the record fails, "finalizer" the Update adding
\* the finalizer fails, RecordRaces: a user acts between the two
ReconcileFinalizerOnlyOutcome(stored, st, fl) ==
    IF fl = "getcmp"
    THEN [store |-> st, cmp |-> stored,
          pass |-> Quiet("getErr", st, stored, Result(0, FALSE, Err("get of the source record failed")))]
    ELSE IF ~stored.exists
    THEN [store |-> st, cmp |-> stored,
          pass |-> Quiet("gone", st, stored, Result(0, FALSE, NilErr))]
    ELSE IF stored.deleting
    THEN HandleDeleteFinalizerOnly(stored, st)
    ELSE IF ~stored.finalizer /\ fl \in {"finalizer"} \cup RecordRaces
    THEN [store |-> st, cmp |-> RecordRacedTo(stored, fl),
          pass |-> [Quiet("finalizerErr", st, stored,
                          Result(0, FALSE, Err("update of the source record failed")))
                    EXCEPT !.cmpWrite = "addFinalizer"]]
    ELSE [store |-> st, cmp |-> AddFinalizer(stored),
          pass |-> [Quiet("finalizerOnly", st, stored, Result(0, FALSE, NilErr))
                    EXCEPT !.cmpWrite = IF stored.finalizer THEN "none"
                                        ELSE "addFinalizer"]]

ReconcileFinalizerOnly(fl) ==
    /\ now < MaxPasses
    /\ Injected(fl, NoFailure) <= MaxFailures - nfail
    /\ CallMade(cmp, fl, NoFailure)
    /\ LET r == ReconcileFinalizerOnlyOutcome(cmp, store, fl)
       IN  /\ PassFailed(fl, r.pass)
           /\ store' = r.store
           /\ cmp' = r.cmp
           /\ last' = [r.pass EXCEPT !.prior = Prior(last),
                                     !.fl = fl]
    /\ now' = now + 1
    /\ nfail' = nfail + Injected(fl, NoFailure)
    /\ UNCHANGED <<srcCM, fin, fout>>

NextFinalizerOnly ==
    \/ \E fl \in {"none", "getcmp", "finalizer"} \cup RecordRaces :
            ReconcileFinalizerOnly(fl)
    \/ MarkDeleted

SpecFinalizerOnly == Init /\ [][NextFinalizerOnly]_vars

====
